---- MODULE Spec2Model ----
(***************************************************************************)
(* OAuth token lifecycle of the multi-agent platform backend:              *)
(*   - token refresh coordinator (app/services/token_refresh.py)           *)
(*   - integration store        (app/crud/integration.py)                  *)
(*   - OAuth state store        (app/crud/oauth_state.py)                  *)
(*                                                                         *)
(* Time is in seconds.  Nullable columns are sequences of length 0 (NULL)  *)
(* or 1 (a value).  Every request runs in its own SQLAlchemy Session; the  *)
(* shared database row is `row`, the Session's copy of it is ctx[p].obj.   *)
(***************************************************************************)
EXTENDS Integers, Sequences, FiniteSets, TLC

\* ---------------------------------------------------------------- bounds
MaxCalls == 3      \* refresh_integration_token requests in one behaviour
MaxTokenCalls == 2 \* get_valid_token requests in one behaviour
MaxPeriods == 3    \* lock timeouts the clock runs for
MaxStateCalls == 4 \* requests on the OAuth state store in one behaviour
MaxFlowCalls == 2  \* callback and disconnect requests in one behaviour
MaxUpsertCalls == 3 \* create_or_update_integration calls in one behaviour
MaxRetryCalls == 2 \* with_oauth_retry requests in one behaviour
MaxStatusCalls == 2 \* list and status requests in one behaviour
MaxPasses == 2 \* cleanup passes the periodic task starts in one behaviour
MaxPostCalls == 2  \* requests to the provider's token endpoint in one behaviour
MaxStatePeriods == 1 \* minutes past the expiration window the state store's clock runs for

\* Two requests are served concurrently (two workers, or two replicas).
Procs == {1, 2}

\* ------------------------------------------------------ program constants
DEFAULT_REFRESH_THRESHOLD_MINUTES == 5
REFRESH_LOCK_TIMEOUT_SECONDS == 30
RATE_LIMIT_SECONDS == 60
STATE_EXPIRATION_MINUTES == 10

Services == {"google_drive", "dataverse", "other"}

SERVICE_REFRESH_THRESHOLDS ==
    [s \in {"google_drive", "dataverse"} |->
        IF s = "google_drive" THEN 5 ELSE 60]

get_refresh_threshold_minutes_default(service_name) ==
    DEFAULT_REFRESH_THRESHOLD_MINUTES

get_refresh_threshold_minutes(service_name) ==
    IF service_name \in DOMAIN SERVICE_REFRESH_THRESHOLDS
    THEN SERVICE_REFRESH_THRESHOLDS[service_name]
    ELSE DEFAULT_REFRESH_THRESHOLD_MINUTES

\* ------------------------------------------------------------ nullables
None == << >>
Some(x) == << x >>
IsNone(v) == v = << >>
Val(v) == v[1]

\* ------------------------------------------------------------ encryption
\* Fernet: a ciphertext decrypts only under the key that produced it and
\* only if its HMAC is intact; otherwise decrypt raises InvalidToken.
CurrentKey == "key_current"
InvalidToken == "InvalidToken"

\* A ciphertext made under another key than the one decrypt uses.
encrypt_rotated(plaintext) ==
    [key |-> "key_rotated", pt |-> plaintext, mac |-> TRUE]

encrypt(plaintext) == [key |-> CurrentKey, pt |-> plaintext, mac |-> TRUE]

\* The length of the Fernet token encrypt returns for a plaintext of n
\* bytes: version, timestamp, IV, the AES-CBC blocks of the padded
\* plaintext and the HMAC, in base64.
fernet_length(n) == 4 * ((1 + 8 + 16 + 16 * (n \div 16 + 1) + 32 + 2) \div 3)

\* The number of bytes of a ciphertext.
Size(ciphertext) == fernet_length(Len(ciphertext.pt))

decrypt(ciphertext) ==
    IF ciphertext.key = CurrentKey /\ ciphertext.mac
    THEN ciphertext.pt
    ELSE InvalidToken

\* ------------------------------------------------------------ inputs
\* Stored ciphertexts a row can hold: written under the current key, written
\* under a rotated key, or tampered with.
AccessCiphers ==
    { encrypt("access_0"),
      [key |-> "key_rotated", pt |-> "access_0", mac |-> TRUE],
      [key |-> CurrentKey, pt |-> "access_0", mac |-> FALSE] }

RefreshCiphers ==
    { None, Some(encrypt("refresh_0")),
      Some([key |-> "key_rotated", pt |-> "refresh_0", mac |-> TRUE]) }

\* expires_at of the stored token at time 0.
InitialExpiry == { None, Some(-1), Some(30), Some(330), Some(3630) }

\* The JSON body the provider's token endpoint answers a refresh_token grant
\* with: its values, and which of the optional keys it holds (a key can be
\* absent, or present with null).
TokenResponses ==
    { [access_token |-> "access_new", refresh_token |-> Some("refresh_new"),
       expires_in |-> Some(3600), scope |-> None,
       keys |-> {"refresh_token", "expires_in"}],
      [access_token |-> "access_new", refresh_token |-> None,
       expires_in |-> None, scope |-> None, keys |-> {}],
      [access_token |-> "access_new", refresh_token |-> None,
       expires_in |-> None, scope |-> None, keys |-> {"refresh_token"}] }

\* dict.get(key, default) on a parsed JSON body.
json_get(result, key, default) ==
    IF key \in result.keys THEN result[key] ELSE default

\* refresh_access_token (services/oauth_token.py:154-162): what it returns for
\* the body `result`, having sent `refresh_token`.
refresh_access_token(result, refresh_token) ==
    [ access_token  |-> result.access_token,
      refresh_token |-> json_get(result, "refresh_token", Some(refresh_token)),
      expires_in    |-> json_get(result, "expires_in", None),
      scope         |-> json_get(result, "scope", None) ]

\* The clock advances by one lock timeout at a time, up to the horizon.
TickDeltas == { REFRESH_LOCK_TIMEOUT_SECONDS }
Horizon == MaxPeriods * REFRESH_LOCK_TIMEOUT_SECONDS

\* The instants at which the state store's clock is read: time 0, then every
\* minute from one minute before the expiration window ends until past it.
StatePeriod == 60
StateInstants ==
    {0} \cup { (STATE_EXPIRATION_MINUTES - 1 + m) * StatePeriod :
                 m \in 0 .. (MaxStatePeriods + 1) }

\* The state strings generate_state() can draw, and the users starting flows.
StateKeys == {"state_a", "state_b"}
Users == {1, 2}

\* What a flow's start stores with its state: the callback URL, the PKCE
\* verifier generated with the state, and for a dynamically registered
\* provider the client_id.
RedirectUri == "https://app/oauth/callback"
CodeVerifiers == [k \in StateKeys |->
                    IF k = "state_a" THEN "verifier_a" ELSE "verifier_b"]

ProviderErrors == { "OAuthTokenError", "Exception" }

NoResponse ==
    [access_token |-> "", refresh_token |-> None, expires_in |-> None,
     scope |-> None]

VARIABLES
    now,        \* datetime.now(timezone.utc), seconds
    service,    \* service_name of the integration
    row,        \* the user_integrations row of (user, service): None or Some(record)
    ctx,        \* per request: position, Session object, locals, result
    completed,  \* history: when refresh_integration_token last returned True
    issued,     \* history: number of requests issued so far
    states,     \* the oauth_states table: state -> None or Some(record)
    sctx,       \* per request on the state store: position, object, result
    delivered,  \* history: per state, how many consume calls returned its data
    used,       \* history: the state strings generated so far
    rejected,   \* history: the states a consume refused for a user mismatch
    flows,      \* history: per state, the user and client_id it was stored for
    integrations, \* the user_integrations table: a set of rows
    nextid,     \* the table's id sequence
    cb,         \* per request on the integrations routes: position, locals, response
    _oauth_states, \* the in-process dict of services/oauth_config.py: state -> None or Some(data)
    mem,        \* the last call on the in-process dict: its number and what it returned
    task        \* run_cleanup_task: position, stop_event, pending cancellation, history

vars == << now, service, row, ctx, completed, issued,
           states, sctx, delivered, used, rejected, flows,
           integrations, nextid, cb, _oauth_states, mem, task >>

\* The in-process state of one server: the dict of states and the sweeper.
memvars == << _oauth_states, mem, task >>

tablevars == << integrations, nextid, cb >>

statevars == << states, sctx, delivered, used, rejected, flows, tablevars,
               memvars >>

\* ------------------------------------------------ UserIntegration model
is_expired_inclusive(integration, t) ==
    IF IsNone(integration.expires_at) THEN FALSE
    ELSE t >= Val(integration.expires_at)

is_expired(integration, t) ==
    IF IsNone(integration.expires_at) THEN FALSE
    ELSE t > Val(integration.expires_at)

is_expiring_soon(integration, minutes, t) ==
    IF IsNone(integration.expires_at) THEN FALSE
    ELSE Val(integration.expires_at) < t + minutes * 60

\* ------------------------------------------------------ Session / ORM
\* get_user_integration: a SELECT by (user_id, service_name).  No row: None.
\* A row whose object is already loaded in this Session comes back as that
\* object (identity map), its loaded attributes not overwritten; else the
\* object is loaded from the row.
get_user_integration(obj, dbrow) ==
    IF IsNone(dbrow) THEN None
    ELSE IF IsNone(obj) THEN dbrow
    ELSE IF Val(obj).id # Val(dbrow).id THEN dbrow
    ELSE obj

CipherColumns == {"access_token_encrypted", "refresh_token_encrypted"}

\* session.add + session.commit: an UPDATE of the columns whose value was
\* changed on the object (a freshly encrypted token is always new bytes).
Commit(dbrow, loaded, edited, assigned) ==
    [f \in DOMAIN dbrow |->
        IF f \in assigned /\ (f \in CipherColumns \/ edited[f] # loaded[f])
        THEN edited[f]
        ELSE dbrow[f]]

get_decrypted_tokens(integration) ==
    LET a == decrypt(integration.access_token_encrypted)
        r == IF IsNone(integration.refresh_token_encrypted) THEN None
             ELSE Some(decrypt(Val(integration.refresh_token_encrypted)))
    IN  IF a = InvalidToken \/ r = Some(InvalidToken)
        THEN [raised |-> TRUE, access_token |-> "", refresh_token |-> None]
        ELSE [raised |-> FALSE, access_token |-> a, refresh_token |-> r]

\* ------------------------------------------------- token_refresh helpers
_is_refresh_locked_forever(integration, t) ==
    ~IsNone(integration.refresh_locked_at)

_is_refresh_locked(integration, t) ==
    IF IsNone(integration.refresh_locked_at) THEN FALSE
    ELSE t - Val(integration.refresh_locked_at) < REFRESH_LOCK_TIMEOUT_SECONDS

_is_rate_limited_never(integration, t) == FALSE

\* An acquisition that records the lock and not the attempt.
_acquire_refresh_lock_only(integration, t) ==
    [integration EXCEPT !.refresh_locked_at = Some(t)]

\* _acquire_refresh_lock (token_refresh.py:207-208): the two assignments.
_acquire_refresh_lock(integration, t) ==
    [integration EXCEPT !.refresh_locked_at = Some(t),
                        !.last_refresh_attempt = Some(t)]

_is_rate_limited_inclusive(integration, t) ==
    IF IsNone(integration.last_refresh_attempt) THEN FALSE
    ELSE t - Val(integration.last_refresh_attempt) <= RATE_LIMIT_SECONDS

_is_rate_limited(integration, t) ==
    IF IsNone(integration.last_refresh_attempt) THEN FALSE
    ELSE t - Val(integration.last_refresh_attempt) < RATE_LIMIT_SECONDS

\* A release whose commit is lost.
_release_refresh_lock_kept(dbrow, loaded) == dbrow

\* A release that writes every column of the Session's object back.
_release_refresh_lock_all(dbrow, loaded) ==
    [loaded EXCEPT !.refresh_locked_at = None]

\* _release_refresh_lock (token_refresh.py:215-226): the row after the commit.
_release_refresh_lock(dbrow, loaded) ==
    Commit(dbrow, loaded, [loaded EXCEPT !.refresh_locked_at = None],
           {"refresh_locked_at"})

\* create_or_update_integration (crud/integration.py:54-130): the columns of
\* the (user, service) row after the commit, for the Session object obj, at
\* time t.  token_type, always "Bearer", is left out.
create_or_update_integration(dbrow, obj, access_token, refresh_token, expires_in, scopes, provider_client_id, t) ==
    LET expires_at == IF IsNone(expires_in) THEN None
                      ELSE Some(t + Val(expires_in))
        existing == get_user_integration(obj, dbrow)
    IN  IF ~IsNone(existing)
        THEN LET loaded == Val(existing)
                 edited == [loaded EXCEPT
                     !.access_token_encrypted = encrypt(access_token),
                     !.refresh_token_encrypted =
                         IF IsNone(refresh_token) THEN @
                         ELSE Some(encrypt(Val(refresh_token))),
                     !.expires_at = expires_at,
                     !.scopes = scopes,
                     !.provider_client_id =
                         IF IsNone(provider_client_id) THEN @
                         ELSE provider_client_id,
                     !.updated_at = t]
                 assigned ==
                     {"access_token_encrypted", "expires_at", "scopes",
                      "updated_at"}
                     \cup (IF IsNone(refresh_token) THEN {}
                           ELSE {"refresh_token_encrypted"})
                     \cup (IF IsNone(provider_client_id) THEN {}
                           ELSE {"provider_client_id"})
             IN  Commit(Val(dbrow), loaded, edited, assigned)
        ELSE [ access_token_encrypted |-> encrypt(access_token),
               refresh_token_encrypted |->
                   IF IsNone(refresh_token) \/ refresh_token = Some("")
                   THEN None
                   ELSE Some(encrypt(Val(refresh_token))),
               expires_at |-> expires_at,
               id |-> None,
               scopes |-> scopes,
               provider_client_id |-> provider_client_id,
               created_at |-> t,
               updated_at |-> t,
               refresh_locked_at |-> None,
               last_refresh_attempt |-> None ]

\* --------------------------------------------------------------- requests
\* A request that is not running: nothing loaded in its Session.
IdleCtx ==
    [ pc        |-> "idle",
      kind      |-> "",      \* "refresh" | "get_valid_token" | "with_oauth_retry"
                             \* | the grant of a token request
      exc       |-> None,    \* token request: the exception it raised
      obj       |-> None,    \* the Session's UserIntegration object
      res       |-> "",      \* what the call returned
      refreshed |-> "",      \* what refresh_integration_token returned
      refreshes |-> 0,       \* refresh_integration_token invocations of this call
      calls     |-> 0,       \* refresh_access_token invocations of this call
      acquired  |-> FALSE,   \* this call wrote the refresh lock
      skip      |-> "",      \* refresh returned before the lock: rate | lock | missing
      resp      |-> NoResponse,
      token     |-> "",      \* with_oauth_retry: the access token it holds
      requests  |-> 0,       \* with_oauth_retry: request_func invocations
      response  |-> None,    \* with_oauth_retry: the first response
      returned  |-> None ]   \* with_oauth_retry: the response it returned

Upd(p, new) == ctx' = [ctx EXCEPT ![p] = new]

\* The request is over: its Session is closed.
Done(c, result) == [c EXCEPT !.pc = "done", !.res = result, !.obj = None]

\* Where refresh_integration_token returns to, with its result.
Return(c, result) ==
    IF c.kind = "refresh"
    THEN Done([c EXCEPT !.refreshed = result], result)
    ELSE IF c.kind = "get_valid_token"
    THEN [c EXCEPT !.pc = "g_after", !.refreshed = result]
    ELSE [c EXCEPT !.pc = "w_after", !.refreshed = result]

Tick(d) ==
    /\ now + d <= Horizon
    /\ now' = now + d
    /\ UNCHANGED << service, row, ctx, completed, issued, statevars >>

\* A new request calls refresh_integration_token (api/routes/v1/users.py:41,
\* oauth_retry.py:100) with a Session of its own.
StartRefresh(p) ==
    /\ ctx[p].pc \in {"idle", "done", "crashed"}
    /\ issued < MaxCalls
    /\ issued' = issued + 1
    /\ Upd(p, [IdleCtx EXCEPT !.pc = "r_load", !.kind = "refresh",
                           !.refreshes = 1])
    /\ UNCHANGED << now, service, row, completed, statevars >>

\* token_refresh.py:250-258
RefreshLoad(p) ==
    LET c == ctx[p]
        integration == get_user_integration(c.obj, row)
    IN  /\ c.pc = "r_load"
        /\ IF IsNone(integration)
           THEN Upd(p, Return([c EXCEPT !.skip = "missing"], "False"))
           ELSE Upd(p, [c EXCEPT !.pc = "r_check", !.obj = integration])
        /\ UNCHANGED << now, service, row, completed, issued, statevars >>

\* token_refresh.py:260-276 with _acquire_refresh_lock:204-205: the rate
\* limit, then the lock, both read from the loaded object.
RefreshCheck(p) ==
    LET c == ctx[p]
        integration == Val(c.obj)
    IN  /\ c.pc = "r_check"
        /\ IF _is_rate_limited(integration, now)
           THEN Upd(p, Return([c EXCEPT !.skip = "rate"], "False"))
           ELSE IF _is_refresh_locked(integration, now)
           THEN Upd(p, Return([c EXCEPT !.skip = "lock"], "False"))
           ELSE Upd(p, [c EXCEPT !.pc = "r_lockwrite"])
        /\ UNCHANGED << now, service, row, completed, issued, statevars >>

\* _acquire_refresh_lock:207-212: write both timestamps, commit, refresh.
\* The UPDATE of a row that was deleted meanwhile matches nothing and the
\* commit raises StaleDataError, outside the try block of the caller.
RefreshLockWrite(p) ==
    LET c == ctx[p]
        loaded == Val(c.obj)
        edited == _acquire_refresh_lock(loaded, now)
        stored == Commit(Val(row), loaded, edited,
                         {"refresh_locked_at", "last_refresh_attempt"})
    IN  /\ c.pc = "r_lockwrite"
        /\ IF IsNone(row)
           THEN /\ Upd(p, Done([c EXCEPT !.refreshed = "raise:StaleDataError"],
                               "raise:StaleDataError"))
                /\ UNCHANGED row
           ELSE /\ row' = Some(stored)
                /\ Upd(p, [c EXCEPT !.pc = "r_decrypt", !.obj = Some(stored),
                                    !.acquired = TRUE])
        /\ UNCHANGED << now, service, completed, issued, statevars >>

\* token_refresh.py:278-293: decrypt, then send the refresh_token grant.
RefreshDecrypt(p) ==
    LET c == ctx[p]
        tokens == get_decrypted_tokens(Val(c.obj))
    IN  /\ c.pc = "r_decrypt"
        /\ IF tokens.raised
           THEN Upd(p, [c EXCEPT !.pc = "r_except"])
           ELSE IF IsNone(tokens.refresh_token)
           THEN Upd(p, Return(c, "False"))
           ELSE Upd(p, [c EXCEPT !.pc = "r_provider", !.calls = @ + 1])
        /\ UNCHANGED << now, service, row, completed, issued, statevars >>

\* The awaited refresh_access_token answers with new tokens ...
ProviderAnswers(p, response) ==
    LET c == ctx[p]
    IN  /\ c.pc = "r_provider"
        /\ Upd(p, [c EXCEPT !.pc = "r_upsert",
               !.resp = refresh_access_token(response,
                   Val(get_decrypted_tokens(Val(c.obj)).refresh_token))])
        /\ UNCHANGED << now, service, row, completed, issued, statevars >>

\* ... or raises (OAuthTokenError, or anything else).
ProviderFails(p, error) ==
    LET c == ctx[p]
    IN  /\ c.pc = "r_provider"
        /\ error \in ProviderErrors
        /\ Upd(p, [c EXCEPT !.pc = "r_except"])
        /\ UNCHANGED << now, service, row, completed, issued, statevars >>

\* token_refresh.py:295-305: store the new tokens.  When the SELECT finds no
\* row, the INSERT takes the next id of the table's sequence.
RefreshUpsert(p) ==
    LET c == ctx[p]
        upserted == create_or_update_integration(row, c.obj,
                      c.resp.access_token, c.resp.refresh_token,
                      c.resp.expires_in, c.resp.scope,
                      Val(c.obj).provider_client_id, now)
        stored == IF IsNone(row)
                  THEN [upserted EXCEPT !.id = Some(Val(Val(c.obj).id) + 1)]
                  ELSE upserted
    IN  /\ c.pc = "r_upsert"
        /\ row' = Some(stored)
        /\ Upd(p, [c EXCEPT !.pc = "r_release", !.obj = Some(stored),
                            !.resp = NoResponse])
        /\ UNCHANGED << now, service, completed, issued, statevars >>

\* token_refresh.py:307-317: re-fetch, clear the lock, return True.
RefreshRelease(p) ==
    LET c == ctx[p]
        integration == get_user_integration(c.obj, row)
        stored == _release_refresh_lock(Val(row), Val(integration))
    IN  /\ c.pc = "r_release"
        /\ IF IsNone(integration)
           THEN /\ Upd(p, [c EXCEPT !.pc = "r_except"])
                /\ UNCHANGED << row, completed >>
           ELSE /\ row' = Some(stored)
                /\ completed' = Some(now)
                /\ Upd(p, Return([c EXCEPT !.obj = Some(stored)], "True"))
        /\ UNCHANGED << now, service, issued, statevars >>

\* token_refresh.py:319-340: both handlers re-fetch, clear the lock if the
\* row is there, and return False.
RefreshExcept(p) ==
    LET c == ctx[p]
        integration == get_user_integration(c.obj, row)
        stored == _release_refresh_lock(Val(row), Val(integration))
    IN  /\ c.pc = "r_except"
        /\ IF IsNone(integration)
           THEN /\ Upd(p, Return(c, "False"))
                /\ UNCHANGED row
           ELSE /\ row' = Some(stored)
                /\ Upd(p, Return([c EXCEPT !.obj = Some(stored)], "False"))
        /\ UNCHANGED << now, service, completed, issued, statevars >>

\* delete_integration (crud/integration.py:133-155) as called by
\* disconnect_integration (api/routes/v1/integrations.py:328): the row of
\* the user and the service is deleted.
DeleteIntegration ==
    /\ ~IsNone(row)
    /\ row' = None
    /\ UNCHANGED << now, service, ctx, completed, issued, statevars >>

\* The process serving the request dies while it awaits the provider.
Crash(p) ==
    /\ ctx[p].pc = "r_provider"
    /\ Upd(p, [ctx[p] EXCEPT !.pc = "crashed", !.obj = None])
    /\ UNCHANGED << now, service, row, completed, issued, statevars >>

\* A new request calls get_valid_token (flow_token_injection.py:92).
StartGetValidToken(p) ==
    /\ ctx[p].pc \in {"idle", "done", "crashed"}
    /\ issued < MaxTokenCalls
    /\ issued' = issued + 1
    /\ Upd(p, [IdleCtx EXCEPT !.pc = "g_load", !.kind = "get_valid_token"])
    /\ UNCHANGED << now, service, row, completed, statevars >>

\* token_refresh.py:92-99
GvtLoad(p) ==
    LET c == ctx[p]
        integration == get_user_integration(c.obj, row)
    IN  /\ c.pc = "g_load"
        /\ IF IsNone(integration)
           THEN Upd(p, Done(c, "None"))
           ELSE Upd(p, [c EXCEPT !.pc = "g_check", !.obj = integration])
        /\ UNCHANGED << now, service, row, completed, issued, statevars >>

needs_refresh(integration, service_name, t) ==
    \/ is_expired(integration, t)
    \/ is_expiring_soon(integration,
                        get_refresh_threshold_minutes(service_name), t)

\* token_refresh.py:101-116
GvtCheck(p) ==
    LET c == ctx[p]
    IN  /\ c.pc = "g_check"
        /\ IF needs_refresh(Val(c.obj), service, now)
           THEN Upd(p, [c EXCEPT !.pc = "r_load", !.refreshes = @ + 1])
           ELSE Upd(p, [c EXCEPT !.pc = "g_decrypt"])
        /\ UNCHANGED << now, service, row, completed, issued, statevars >>

\* token_refresh.py:118-132
GvtAfter(p) ==
    LET c == ctx[p]
    IN  /\ c.pc = "g_after"
        /\ IF c.refreshed = "False" /\ is_expired(Val(c.obj), now)
           THEN Upd(p, Done(c, "None"))
           ELSE Upd(p, [c EXCEPT !.pc = "g_reload"])
        /\ UNCHANGED << now, service, row, completed, issued, statevars >>

\* token_refresh.py:134-139
GvtReload(p) ==
    LET c == ctx[p]
        integration == get_user_integration(c.obj, row)
    IN  /\ c.pc = "g_reload"
        /\ IF IsNone(integration)
           THEN Upd(p, Done(c, "raise:AttributeError"))
           ELSE Upd(p, [c EXCEPT !.pc = "g_decrypt", !.obj = integration])
        /\ UNCHANGED << now, service, row, completed, issued, statevars >>

\* token_refresh.py:141-143
GvtDecrypt(p) ==
    LET c == ctx[p]
        tokens == get_decrypted_tokens(Val(c.obj))
    IN  /\ c.pc = "g_decrypt"
        /\ IF tokens.raised
           THEN Upd(p, Done(c, "raise:InvalidToken"))
           ELSE Upd(p, Done(c, tokens.access_token))
        /\ UNCHANGED << now, service, row, completed, issued, statevars >>

\* ------------------------------------------------------ OAuth state store
state_is_expired_late(oauth_state, t) ==
    t - oauth_state.created_at > (STATE_EXPIRATION_MINUTES + 1) * 60

\* OAuthState.is_expired (models/oauth_state.py:47-62)
state_is_expired(oauth_state, t) ==
    t - oauth_state.created_at > STATE_EXPIRATION_MINUTES * 60

\* session.get(OAuthState, state): the row of that primary key, or None.
session_get(table, state) == table[state]

session_delete_kept(table, state) == table

\* session.delete + session.commit: DELETE ... WHERE state = :state.  A row
\* another Session deleted meantime matches nothing, which the ORM only warns
\* about; the commit goes through.
session_delete(table, state) == [table EXCEPT ![state] = None]

user_mismatch_ignored(oauth_state, user_id) == FALSE

\* crud/oauth_state.py:102-104
user_mismatch(oauth_state, user_id) ==
    ~IsNone(user_id) /\ oauth_state.user_id # Val(user_id)

IdleState ==
    [ pc      |-> "idle",
      op      |-> "",       \* "store" | "consume" | "get" | "start" | "cleanup"
      state   |-> "",       \* the state argument
      user_id |-> None,     \* the user_id argument of consume
      obj     |-> None,     \* the OAuthState object session.get returned
      res     |-> None,     \* what the call returned
      exit    |-> "",       \* where consume returned: missing | expired | mismatch | ok;
                            \* what build_authorization_url_db raised, or ok
      swept   |-> {},       \* cleanup: the states its SELECT returned
      count   |-> 0,        \* cleanup: the number it returned
      after   |-> FALSE,    \* history: began after a consume returned this state
      after_reject |-> FALSE ] \* history: began after a mismatch refusal of this state

SUpd(p, new) == sctx' = [sctx EXCEPT ![p] = new]

IdleMem ==
    [ n   |-> 0,        \* history: the number of the call last made on the dict
      op  |-> "",       \* "store" | "get" | "consume"
      res |-> None,     \* what the call returned
      keys |-> {} ]     \* history: the state strings stored in the dict so far

IdleTask ==
    [ pc         |-> "none",   \* none | start | check | wait | cleanup | recover |
                               \* stopped | cancelled
      stop_event |-> None,     \* None, or Some(is_set)
      cancel     |-> FALSE,    \* task.cancel() was called and is not yet delivered
      passes     |-> 0,        \* history: cleanup passes started
      errors     |-> 0,        \* history: cleanup passes that raised
      seen       |-> FALSE ]   \* history: the task has observed the event set

tokenvars == << service, row, ctx, completed, memvars >>

StateTick ==
    /\ \E t \in StateInstants :
          /\ t > now
          /\ \A u \in StateInstants : u > now => t <= u
          /\ now' = t
    /\ UNCHANGED << tokenvars, issued, statevars >>

\* store_oauth_state_db (crud/oauth_state.py:40-51): the INSERT of the record
\* and its commit.
store_oauth_state_db(state, user_id, service_name, redirect_uri, code_verifier, provider_client_id) ==
    LET oauth_state == [user_id |-> user_id, service_name |-> service_name,
                        redirect_uri |-> redirect_uri,
                        code_verifier |-> code_verifier,
                        provider_client_id |-> provider_client_id,
                        created_at |-> now]
    IN  /\ states' = [states EXCEPT ![state] = Some(oauth_state)]
        /\ flows' = [flows EXCEPT ![state] =
               Some([user_id |-> user_id, service_name |-> service_name,
                     code_verifier |-> code_verifier,
                     provider_client_id |-> provider_client_id])]
        /\ used' = used \cup {state}

\* store_oauth_state_db (crud/oauth_state.py:15-51) with a state string fresh
\* from generate_state (services/oauth_config.py:165).
StoreState(p, state, user_id, service_name, code_verifier, provider_client_id) ==
    /\ sctx[p].pc \in {"idle", "done"}
    /\ issued < MaxStateCalls
    /\ state \notin used
    /\ store_oauth_state_db(state, user_id, service_name, RedirectUri,
                            code_verifier, provider_client_id)
    /\ SUpd(p, [IdleState EXCEPT !.pc = "done", !.op = "store"])
    /\ issued' = issued + 1
    /\ UNCHANGED << now, tokenvars, delivered, rejected, tablevars >>

\* get_oauth_state_db (crud/oauth_state.py:54-69)
GetState(p, state) ==
    /\ sctx[p].pc \in {"idle", "done"}
    /\ issued < MaxStateCalls
    /\ state \in used
    /\ SUpd(p, [IdleState EXCEPT !.pc = "done", !.op = "get", !.state = state,
                                 !.res = session_get(states, state),
                                 !.after = delivered[state] > 0])
    /\ issued' = issued + 1
    /\ UNCHANGED << now, tokenvars, states, delivered, used, rejected, flows,
                    tablevars >>

\* A request calls consume_oauth_state_db: the OAuth callback passes no
\* user_id (api/routes/v1/integrations.py:270), other callers may.
StartConsume(p, state, user_id) ==
    /\ sctx[p].pc \in {"idle", "done"}
    /\ issued < MaxStateCalls
    /\ state \in used
    /\ SUpd(p, [IdleState EXCEPT !.pc = "c_get", !.op = "consume",
                                 !.state = state, !.user_id = user_id,
                                 !.after = delivered[state] > 0,
                                 !.after_reject = state \in rejected])
    /\ issued' = issued + 1
    /\ UNCHANGED << now, tokenvars, states, delivered, used, rejected, flows,
                    tablevars >>

\* crud/oauth_state.py:91-93
ConsumeGet(p) ==
    LET c == sctx[p]
        oauth_state == session_get(states, c.state)
    IN  /\ c.pc = "c_get"
        /\ IF IsNone(oauth_state)
           THEN SUpd(p, [c EXCEPT !.pc = "done", !.res = None,
                                  !.exit = "missing"])
           ELSE SUpd(p, [c EXCEPT !.pc = "c_finish", !.obj = oauth_state])
        /\ UNCHANGED << now, tokenvars, issued, states, delivered, used,
                        rejected, flows, tablevars >>

\* crud/oauth_state.py:95-110
ConsumeFinish(p) ==
    LET c == sctx[p]
        oauth_state == Val(c.obj)
    IN  /\ c.pc = "c_finish"
        /\ IF state_is_expired(oauth_state, now)
           THEN /\ states' = session_delete(states, c.state)
                /\ SUpd(p, [c EXCEPT !.pc = "done", !.res = None, !.obj = None,
                                     !.exit = "expired"])
                /\ UNCHANGED << delivered, rejected >>
           ELSE IF user_mismatch(oauth_state, c.user_id)
           THEN /\ SUpd(p, [c EXCEPT !.pc = "done", !.res = None, !.obj = None,
                                     !.exit = "mismatch"])
                /\ rejected' = rejected \cup {c.state}
                /\ UNCHANGED << states, delivered >>
           ELSE /\ states' = session_delete(states, c.state)
                /\ SUpd(p, [c EXCEPT !.pc = "done", !.res = c.obj, !.obj = None,
                                     !.exit = "ok"])
                /\ delivered' = [delivered EXCEPT ![c.state] = @ + 1]
                /\ UNCHANGED rejected
        /\ UNCHANGED << now, tokenvars, issued, used, flows, tablevars >>

\* A sweep that also takes the states created exactly at the threshold.
cleanup_selects_inclusive(oauth_state, t) ==
    oauth_state.created_at <= t - STATE_EXPIRATION_MINUTES * 60

\* crud/oauth_state.py:125-130: OAuthState.created_at < expiration_threshold
cleanup_selects(oauth_state, t) ==
    oauth_state.created_at < t - STATE_EXPIRATION_MINUTES * 60

\* cleanup_expired_states_db (crud/oauth_state.py:125-133): the threshold,
\* the SELECT of the expired states and their count.
CleanupSelect(p) ==
    LET expired_states ==
            { k \in StateKeys : /\ ~IsNone(states[k])
                                /\ cleanup_selects(Val(states[k]), now) }
    IN  /\ sctx[p].pc \in {"idle", "done"}
        /\ issued < MaxStateCalls
        /\ issued' = issued + 1
        /\ SUpd(p, [IdleState EXCEPT !.pc = "s_commit", !.op = "cleanup",
                                     !.swept = expired_states,
                                     !.count = Cardinality(expired_states)])
        /\ UNCHANGED << now, tokenvars, states, delivered, used, rejected,
                        flows, tablevars >>

\* crud/oauth_state.py:134-140: the DELETE of each state found, by primary
\* key, the commit when there were any, the count returned.
CleanupCommit(p) ==
    LET c == sctx[p]
    IN  /\ c.pc = "s_commit"
        /\ states' = [k \in StateKeys |->
                         IF k \in c.swept THEN None ELSE states[k]]
        /\ SUpd(p, [c EXCEPT !.pc = "done"])
        /\ UNCHANGED << now, tokenvars, issued, delivered, used, rejected,
                        flows, tablevars >>

\* ------------------------------------------- integrations table, callback
\* session.exec(select(UserIntegration).where(user_id, service_name)).first()
select_integration_none(table, user_id, service_name) == None

select_integration(table, user_id, service_name) ==
    LET found == { r \in table : /\ r.user_id = user_id
                                  /\ r.service_name = service_name }
    IN  IF found = {} THEN None ELSE Some((CHOOSE r \in found : TRUE).cols)

unique_violation_off(table, user_id, service_name) == FALSE

\* UniqueConstraint("user_id", "service_name") (models/user_integration.py:
\* 36-39): the INSERT of a second row for the pair fails.
unique_violation(table, user_id, service_name) ==
    \E r \in table : r.user_id = user_id /\ r.service_name = service_name

\* A request that is not running.
IdleCallback ==
    [ pc         |-> "idle",
      service    |-> "",      \* the path's service
      code       |-> None,    \* query parameters of the callback
      state      |-> None,
      error      |-> None,
      state_data |-> None,    \* what consume returned
      sent       |-> None,    \* what the token request was made with
      tokens     |-> NoResponse,
      user_id    |-> None,    \* arguments of create_or_update_integration
      provider_client_id |-> None,
      obj        |-> None,    \* the Session's UserIntegration object
      args       |-> None,    \* list and status requests: what was asked, and when
      result     |-> None,    \* list and status requests: the response body
      out        |-> "" ]     \* the response: a redirect, or a raised exception

CUpd(p, new) == cb' = [cb EXCEPT ![p] = new]

\* The response is sent: only the response is kept.
Respond(c, out) ==
    [IdleCallback EXCEPT !.pc = "done", !.out = out]

callback_check_code_first(error, code, state) ==
    IF IsNone(code) THEN "error:Missing authorization code"
    ELSE IF ~IsNone(error) THEN "error:OAuth error"
    ELSE IF IsNone(state) THEN "error:Missing state parameter"
    ELSE ""

\* api/routes/v1/integrations.py:249-266: the checks on the query
\* parameters, in order; "" when all pass.
callback_check(error, code, state) ==
    IF ~IsNone(error) THEN "error:OAuth error"
    ELSE IF IsNone(code) THEN "error:Missing authorization code"
    ELSE IF IsNone(state) THEN "error:Missing state parameter"
    ELSE ""

\* exchange_code_for_tokens (services/oauth_token.py:103-109): what it
\* returns for the token endpoint's JSON body.
exchange_code_for_tokens(result) ==
    [ access_token  |-> result.access_token,
      refresh_token |-> json_get(result, "refresh_token", None),
      expires_in    |-> json_get(result, "expires_in", None),
      scope         |-> json_get(result, "scope", None) ]

\* The bodies the token endpoint answers an authorization_code grant with,
\* for the code of the flow that `state` began.
ExchangeShapes == { "full", "minimal" }

ExchangeResponse(state, shape) ==
    IF shape = "full"
    THEN [access_token |-> "access_" \o state,
          refresh_token |-> Some("refresh_" \o state),
          expires_in |-> Some(3600), scope |-> Some("scope_" \o state),
          keys |-> {"refresh_token", "expires_in", "scope"}]
    ELSE [access_token |-> "access_" \o state, refresh_token |-> None,
          expires_in |-> None, scope |-> None, keys |-> {}]

\* What the exchange can raise: the provider rejects the code (a JSON error
\* body), the error body is not JSON, the provider configuration is missing.
ExchangeErrors == { "OAuthTokenError", "JSONDecodeError", "ValueError" }

CallbackServices == {"google_drive", "dataverse"}

\* services/oauth_config.py:90-123: Dataverse registers its client
\* dynamically; build_authorization_url_db stores provider_client_id with the
\* state only for such a provider (line 513).
uses_dynamic_registration(service_name) == service_name = "dataverse"

\* services/oauth_config.py:117: only Dataverse uses PKCE.
use_pkce(service_name) == service_name = "dataverse"

\* get_provider_config (services/oauth_config.py:71-145): the configuration
\* of a service with a builder whose settings are there (`configured`), else
\* None.
get_provider_config(service_name, configured) ==
    IF service_name \notin CallbackServices \/ ~configured THEN None
    ELSE Some([ authorize_url |-> "https://" \o service_name \o "/authorize",
                scopes |-> IF service_name = "dataverse"
                           THEN "openid offline_access"
                           ELSE "https://www.googleapis.com/auth/drive.readonly",
                client_id |-> IF service_name = "dataverse" THEN None
                              ELSE Some("google_client_id"),
                use_pkce |-> use_pkce(service_name),
                uses_dynamic_registration |->
                    uses_dynamic_registration(service_name),
                extra_params |-> IF service_name = "dataverse" THEN None
                                 ELSE Some("access_type=offline&prompt=consent") ])

\* generate_pkce_pair (services/oauth_config.py:183-184): the S256 challenge
\* of a verifier.
code_challenge(code_verifier) == "S256(" \o code_verifier \o ")"

client_id_default(config, provider_client_id) == Some("default_client")

\* services/oauth_config.py:475
client_id_of(config, provider_client_id) ==
    IF config.uses_dynamic_registration THEN provider_client_id
    ELSE config.client_id

stored_client_id_given(config, provider_client_id) == provider_client_id

\* services/oauth_config.py:513
stored_client_id(config, provider_client_id) ==
    IF config.uses_dynamic_registration THEN provider_client_id ELSE None

\* What build_authorization_url_db raised, nothing stored or returned.
Raises(error) ==
    [ raised |-> error, url |-> None, state |-> None, code_verifier |-> None,
      provider_client_id |-> None ]

\* build_authorization_url_db (services/oauth_config.py:469-517) with the
\* state and the verifier it generates: what it raises, or the URL (its
\* query parameters) and state it returns and what it stores with the state.
build_authorization_url_db(service_name, redirect_uri, user_id, provider_client_id, configured, state) ==
    LET config == get_provider_config(service_name, configured)
        client_id == client_id_of(Val(config), provider_client_id)
        code_verifier == IF Val(config).use_pkce
                         THEN Some(CodeVerifiers[state]) ELSE None
    IN  IF IsNone(config)
        THEN Raises("ValueError:Unknown service or missing configuration")
        ELSE IF IsNone(client_id) \/ client_id = Some("")
        THEN Raises("ValueError:No client_id available")
        ELSE [ raised |-> "",
               url |-> Some(
                 [ authorize_url |-> Val(config).authorize_url,
                   client_id |-> Val(client_id),
                   redirect_uri |-> redirect_uri,
                   response_type |-> "code",
                   scope |-> Val(config).scopes,
                   state |-> state,
                   code_challenge |->
                       IF Val(config).use_pkce
                       THEN Some(code_challenge(Val(code_verifier)))
                       ELSE None,
                   code_challenge_method |->
                       IF Val(config).use_pkce THEN Some("S256") ELSE None,
                   extra_params |-> Val(config).extra_params ]),
               state |-> Some(state),
               code_verifier |-> code_verifier,
               provider_client_id |->
                   stored_client_id(Val(config), provider_client_id) ]

\* A request calls build_authorization_url_db (api/routes/v1/integrations.py:
\* 185-191) for the signed-in user.
StartFlow(p, state, user_id, service_name, provider_client_id, configured) ==
    LET built == build_authorization_url_db(service_name, RedirectUri, user_id,
                     provider_client_id, configured, state)
    IN  /\ cb[p].pc \in {"idle", "done"}
        /\ sctx[p].pc \in {"idle", "done"}
        /\ issued < MaxStateCalls
        /\ state \notin used
        /\ issued' = issued + 1
        /\ IF built.raised # ""
           THEN /\ SUpd(p, [IdleState EXCEPT !.pc = "done", !.op = "start",
                                             !.exit = built.raised])
                /\ UNCHANGED << states, flows, used >>
           ELSE /\ store_oauth_state_db(state, user_id, service_name,
                       RedirectUri, built.code_verifier,
                       built.provider_client_id)
                /\ SUpd(p, [IdleState EXCEPT !.pc = "done", !.op = "start",
                       !.exit = "ok",
                       !.res = Some([url |-> Val(built.url), state |-> state])])
        /\ UNCHANGED << now, tokenvars, delivered, rejected, tablevars >>

\* The callback and disconnect requests made so far: every request counts in
\* `issued`, and each flow that was started has used one state string.
FlowCalls == issued - Cardinality(used)

\* The requests that reach the callback: the path's service and the query
\* parameters code, state and error, each present or not.  The path's
\* service is read only once the three parameters have passed (line 277).
CallbackRequests ==
    { r \in [ service : CallbackServices,
              code : {None, Some("code_1")},
              state : {None} \cup {Some(k) : k \in StateKeys},
              error : {None, Some("access_denied")} ] :
        \/ r.service = "google_drive"
        \/ IsNone(r.error) /\ ~IsNone(r.code) /\ ~IsNone(r.state) }

\* GET /oauth/callback/{service}: lines 249-266, and the call of
\* consume_oauth_state_db without user_id at line 270.
StartCallback(p, path_service, code, state, error) ==
    LET refused == callback_check(error, code, state)
        c == [IdleCallback EXCEPT !.service = path_service, !.code = code,
                                  !.state = state, !.error = error]
    IN  /\ cb[p].pc \in {"idle", "done"}
        /\ sctx[p].pc \in {"idle", "done"}
        /\ FlowCalls < MaxFlowCalls
        /\ issued' = issued + 1
        /\ IF refused # ""
           THEN /\ CUpd(p, Respond(c, refused))
                /\ UNCHANGED sctx
           ELSE /\ CUpd(p, [c EXCEPT !.pc = "cb_consume"])
                /\ SUpd(p, [IdleState EXCEPT
                       !.pc = "c_get", !.op = "consume", !.state = Val(state),
                       !.after = delivered[Val(state)] > 0,
                       !.after_reject = Val(state) \in rejected])
        /\ UNCHANGED << now, tokenvars, states, delivered, used, rejected,
                        flows, integrations, nextid >>

\* api/routes/v1/integrations.py:271-282
CallbackConsumed(p) ==
    LET c == cb[p]
        state_data == sctx[p].res
    IN  /\ c.pc = "cb_consume"
        /\ sctx[p].pc = "done"
        /\ IF IsNone(state_data)
           THEN CUpd(p, Respond(c, "error:Invalid or expired state parameter"))
           ELSE IF Val(state_data).service_name # c.service
           THEN CUpd(p, Respond(c, "error:Service mismatch in callback"))
           ELSE CUpd(p, [c EXCEPT !.pc = "cb_exchange",
                                  !.state_data = state_data])
        /\ SUpd(p, IdleState)
        /\ UNCHANGED << now, tokenvars, issued, states, delivered, used,
                        rejected, flows, integrations, nextid >>

TokenRequest_unbound(c) ==
    [ code |-> Val(c.code),
      redirect_uri |-> Val(c.state_data).redirect_uri,
      code_verifier |-> None,
      provider_client_id |-> None ]

\* api/routes/v1/integrations.py:286-293: the token request and its answer,
\* and the arguments create_or_update_integration is given (302-311).
TokenRequest(c) ==
    [ code |-> Val(c.code),
      redirect_uri |-> Val(c.state_data).redirect_uri,
      code_verifier |-> Val(c.state_data).code_verifier,
      provider_client_id |-> Val(c.state_data).provider_client_id ]

ExchangeAnswers(p, shape) ==
    LET c == cb[p]
        result == ExchangeResponse(Val(c.state), shape)
    IN  /\ c.pc = "cb_exchange"
        /\ CUpd(p, [c EXCEPT !.pc = "cb_select",
                  !.sent = Some(TokenRequest(c)),
                  !.tokens = exchange_code_for_tokens(result),
                  !.user_id = Some(Val(c.state_data).user_id),
                  !.provider_client_id = Val(c.state_data).provider_client_id])
        /\ UNCHANGED << now, tokenvars, issued, states, sctx, delivered, used,
                        rejected, flows, integrations, nextid >>

\* api/routes/v1/integrations.py:294-298: only OAuthTokenError is caught.
ExchangeFails(p, error) ==
    LET c == [cb[p] EXCEPT !.sent = Some(TokenRequest(cb[p]))]
    IN  /\ cb[p].pc = "cb_exchange"
        /\ IF error = "OAuthTokenError"
           THEN CUpd(p, Respond(c, "error:Token exchange failed"))
           ELSE CUpd(p, Respond(c, "raise:" \o error))
        /\ UNCHANGED << now, tokenvars, issued, states, sctx, delivered, used,
                        rejected, flows, integrations, nextid >>

\* crud/integration.py:92-96 as called at integrations.py:302-311: the SELECT.
UpsertSelect(p) ==
    LET c == cb[p]
        found == select_integration(integrations, Val(c.user_id), c.service)
    IN  /\ c.pc = "cb_select"
        /\ CUpd(p, [c EXCEPT !.pc = "cb_commit",
                             !.obj = get_user_integration(c.obj, found)])
        /\ UNCHANGED << now, tokenvars, issued, states, sctx, delivered, used,
                        rejected, flows, integrations, nextid >>

\* crud/integration.py:98-130, then integrations.py:313-314: the UPDATE of
\* the loaded row or the INSERT of a new one, the commit, the redirect.
UpsertCommit(p) ==
    LET c == cb[p]
        user_id == Val(c.user_id)
        target == { r \in integrations :
                      ~IsNone(c.obj) /\ r.cols.id = Val(c.obj).id }
        dbrow == IF target = {} THEN None
                 ELSE Some((CHOOSE r \in target : TRUE).cols)
        stored == create_or_update_integration(dbrow, c.obj,
                      c.tokens.access_token, c.tokens.refresh_token,
                      c.tokens.expires_in, c.tokens.scope,
                      c.provider_client_id, now)
    IN  /\ c.pc = "cb_commit"
        /\ IF IsNone(c.obj)
           THEN IF unique_violation(integrations, user_id, c.service)
                THEN /\ CUpd(p, Respond(c, "raise:IntegrityError"))
                     /\ UNCHANGED << integrations, nextid >>
                ELSE /\ integrations' = integrations \cup
                          { [ user_id |-> user_id, service_name |-> c.service,
                              cols |-> [stored EXCEPT !.id = Some(nextid)] ] }
                     /\ nextid' = nextid + 1
                     /\ CUpd(p, Respond(c, "connected"))
           ELSE IF target = {}
                THEN /\ CUpd(p, Respond(c, "raise:StaleDataError"))
                     /\ UNCHANGED << integrations, nextid >>
                ELSE /\ integrations' =
                          { IF r \in target THEN [r EXCEPT !.cols = stored]
                            ELSE r : r \in integrations }
                     /\ CUpd(p, Respond(c, "connected"))
                     /\ UNCHANGED nextid
        /\ UNCHANGED << now, tokenvars, issued, states, sctx, delivered, used,
                        rejected, flows >>

\* A caller other than the callback calls create_or_update_integration
\* (crud/integration.py:54-64) with arguments of its own.
UpsertArgs ==
    { [access_token |-> "access_1", refresh_token |-> Some("refresh_1"),
       expires_in |-> Some(3600), scope |-> Some("scope_1"),
       provider_client_id |-> Some("client_1")],
      [access_token |-> "access_2", refresh_token |-> Some(""),
       expires_in |-> Some(7200), scope |-> Some("scope_2"),
       provider_client_id |-> Some("client_2")],
      [access_token |-> "access_3", refresh_token |-> None,
       expires_in |-> None, scope |-> None,
       provider_client_id |-> None] }

StartUpsert(p, user_id, service_name, args) ==
    /\ cb[p].pc \in {"idle", "done"}
    /\ issued < MaxUpsertCalls
    /\ issued' = issued + 1
    /\ CUpd(p, [IdleCallback EXCEPT
           !.pc = "cb_select", !.service = service_name,
           !.tokens = [access_token |-> args.access_token,
                       refresh_token |-> args.refresh_token,
                       expires_in |-> args.expires_in,
                       scope |-> args.scope],
           !.user_id = Some(user_id),
           !.provider_client_id = args.provider_client_id])
    /\ UNCHANGED << now, tokenvars, states, sctx, delivered, used, rejected,
                    flows, integrations, nextid >>

\* DELETE /integrations/{service} (integrations.py:317-341) with
\* delete_integration (crud/integration.py:133-155): the row of the pair is
\* deleted in one request; when there is none the answer is 404 and nothing
\* changes.
Disconnect(user_id, service_name) ==
    LET found == { r \in integrations : /\ r.user_id = user_id
                                         /\ r.service_name = service_name }
    IN  /\ FlowCalls < MaxFlowCalls
        /\ found # {}
        /\ issued' = issued + 1
        /\ integrations' = integrations \ found
        /\ UNCHANGED << now, tokenvars, states, sctx, delivered, used,
                        rejected, flows, nextid, cb >>

\* ------------------------------------------------- list and status routes
\* get_user_integrations (crud/integration.py:37-51): the rows of the user.
get_user_integrations(table, user_id) ==
    { r \in table : r.user_id = user_id }

\* The orders in which a SELECT without ORDER BY can return the rows.
Orderings(rows) ==
    { f \in [1 .. Cardinality(rows) -> rows] :
        \A i, j \in 1 .. Cardinality(rows) : f[i] = f[j] => i = j }

to_public_all(integration, t) == integration

\* _to_public (api/routes/v1/integrations.py:75-86) at time t.
to_public(integration, t) ==
    [ id |-> integration.cols.id,
      service_name |-> integration.service_name,
      expires_at |-> integration.cols.expires_at,
      scopes |-> integration.cols.scopes,
      is_connected |-> TRUE,
      is_expired |-> is_expired(integration.cols, t),
      created_at |-> integration.cols.created_at,
      updated_at |-> integration.cols.updated_at ]

\* list_integrations (api/routes/v1/integrations.py:89-105) for the rows in
\* the order the SELECT returned them.
list_integrations(rows, t) ==
    [ integrations |-> [i \in DOMAIN rows |-> to_public(rows[i], t)],
      count |-> Len(rows) ]

\* get_integration_status (crud/integration.py:231-253) at time t.
get_integration_status(table, user_id, available_services, t) ==
    LET integrations_of == get_user_integrations(table, user_id)
        has(s) == \E i \in integrations_of : i.service_name = s
        integration(s) ==
            (CHOOSE i \in integrations_of : i.service_name = s).cols
        is_missing(s) == ~has(s)
        is_old(s) == has(s) /\ is_expired(integration(s), t)
        is_live(s) == has(s) /\ ~is_expired(integration(s), t)
    IN  [ connected |-> SelectSeq(available_services, is_live),
          expired |-> SelectSeq(available_services, is_old),
          missing |-> SelectSeq(available_services, is_missing) ]

\* The lists of services a caller asks the status of: the supported
\* services (services/oauth_config.py:126-155), those in another order
\* with one more, one alone.
AvailableServices ==
    { << "google_drive", "dataverse" >>,
      << "dataverse", "other", "google_drive" >>, << "google_drive" >> }

\* GET /integrations/status (integrations.py:108-129), or another caller of
\* get_integration_status.
GetStatus(p, user_id, available_services) ==
    /\ cb[p].pc \in {"idle", "done"}
    /\ issued < MaxStatusCalls
    /\ issued' = issued + 1
    /\ CUpd(p, [IdleCallback EXCEPT !.pc = "done", !.out = "status",
           !.args = Some([user_id |-> user_id,
                          available_services |-> available_services,
                          at |-> now]),
           !.result = Some(get_integration_status(integrations, user_id,
                                                  available_services, now))])
    /\ UNCHANGED << now, tokenvars, states, sctx, delivered, used, rejected,
                    flows, integrations, nextid >>

\* GET /integrations/ (integrations.py:89-105)
ListIntegrations(p, user_id) ==
    /\ cb[p].pc \in {"idle", "done"}
    /\ issued < MaxStatusCalls
    /\ issued' = issued + 1
    /\ \E rows \in Orderings(get_user_integrations(integrations, user_id)) :
          CUpd(p, [IdleCallback EXCEPT !.pc = "done", !.out = "list",
              !.args = Some([user_id |-> user_id,
                             available_services |-> << >>, at |-> now]),
              !.result = Some(list_integrations(rows, now))])
    /\ UNCHANGED << now, tokenvars, states, sctx, delivered, used, rejected,
                    flows, integrations, nextid >>

\* ------------------------------------------------------ with_oauth_retry
\* The status codes request_func's response can carry.
StatusCodes == { 200, 401, 500 }

\* What request_func returns: a response with a status code, here with the
\* token the request was made with and which request of the call it was.
Response(status, token, n) ==
    [ status_code |-> status, token |-> token, n |-> n ]

should_retry_on_error(status) == status >= 400

\* services/oauth_retry.py:89-91: anything but a 401 is returned as it is.
should_retry(status) == status = 401

\* A request calls with_oauth_retry with a Session of its own.
StartWithRetry(p) ==
    /\ ctx[p].pc \in {"idle", "done", "crashed"}
    /\ issued < MaxRetryCalls
    /\ issued' = issued + 1
    /\ Upd(p, [IdleCtx EXCEPT !.pc = "w_load", !.kind = "with_oauth_retry"])
    /\ UNCHANGED << now, service, row, completed, statevars >>

\* services/oauth_retry.py:62-84
RetryLoad(p) ==
    LET c == ctx[p]
        integration == get_user_integration(c.obj, row)
    IN  /\ c.pc = "w_load"
        /\ IF IsNone(integration)
           THEN Upd(p, Done(c, "raise:ValueError"))
           ELSE IF get_decrypted_tokens(Val(integration)).raised
           THEN Upd(p, Done(c, "raise:ValueError"))
           ELSE Upd(p, [c EXCEPT !.pc = "w_request", !.obj = integration,
                   !.token = get_decrypted_tokens(Val(integration)).access_token])
        /\ UNCHANGED << now, service, row, completed, issued, statevars >>

\* services/oauth_retry.py:86-104: the first request and what follows it.
RequestAnswers(p, status) ==
    LET c == ctx[p]
        response == Response(status, c.token, c.requests + 1)
    IN  /\ c.pc = "w_request"
        /\ IF should_retry(status)
           THEN Upd(p, [c EXCEPT !.pc = "r_load", !.requests = @ + 1,
                                 !.refreshes = @ + 1,
                                 !.response = Some(response)])
           ELSE Upd(p, Done([c EXCEPT !.requests = @ + 1,
                                      !.returned = Some(response)],
                            "response"))
        /\ UNCHANGED << now, service, row, completed, issued, statevars >>

refresh_failed_ignored(refresh_success) == FALSE

refresh_failed_always(refresh_success) == TRUE

\* services/oauth_retry.py:106: `if not refresh_success`
refresh_failed(refresh_success) == refresh_success = "False"

\* services/oauth_retry.py:106-112
RetryAfter(p) ==
    LET c == ctx[p]
    IN  /\ c.pc = "w_after"
        /\ IF refresh_failed(c.refreshed)
           THEN Upd(p, Done([c EXCEPT !.returned = c.response,
                                      !.response = None], "response"))
           ELSE Upd(p, [c EXCEPT !.pc = "w_reload"])
        /\ UNCHANGED << now, service, row, completed, issued, statevars >>

\* services/oauth_retry.py:114-129
RetryReload(p) ==
    LET c == ctx[p]
        integration == get_user_integration(c.obj, row)
        tokens == get_decrypted_tokens(Val(integration))
    IN  /\ c.pc = "w_reload"
        /\ IF tokens.raised
           THEN Upd(p, Done([c EXCEPT !.returned = c.response,
                                      !.response = None], "response"))
           ELSE Upd(p, [c EXCEPT !.pc = "w_retry", !.obj = integration,
                                 !.token = tokens.access_token])
        /\ UNCHANGED << now, service, row, completed, issued, statevars >>

\* services/oauth_retry.py:131-138: the one retry, returned whatever it is.
RetryAnswers(p, status) ==
    LET c == ctx[p]
        response == Response(status, c.token, c.requests + 1)
    IN  /\ c.pc = "w_retry"
        /\ Upd(p, Done([c EXCEPT !.requests = @ + 1, !.response = None,
                                 !.returned = Some(response)], "response"))
        /\ UNCHANGED << now, service, row, completed, issued, statevars >>

\* ------------------------------------------------- the token endpoint
\* The JSON bodies of an error answer: error and error_description, error
\* alone, neither.
ErrorBodies ==
    { [error |-> "invalid_grant", error_description |-> Some("Token expired"),
       keys |-> {"error", "error_description"}],
      [error |-> "invalid_grant", error_description |-> None,
       keys |-> {"error"}],
      [error |-> "", error_description |-> None, keys |-> {}] }

\* The HTTP responses of the token endpoint: 200 with a JSON body of tokens,
\* an error status with a JSON error body, and a body that is not JSON (an
\* HTML page, nothing) under either.
HttpResponses ==
    { [status_code |-> 200, is_json |-> TRUE, body |-> b] :
          b \in TokenResponses }
    \cup { [status_code |-> st, is_json |-> TRUE, body |-> b] :
             st \in {400, 500}, b \in ErrorBodies }
    \cup { [status_code |-> st, is_json |-> FALSE, body |-> [text |-> t]] :
             st \in {200, 500, 502},
             t \in {"<html>Internal Server Error</html>", ""} }

\* OAuthTokenError(error, description) (services/oauth_token.py:12-18)
OAuthTokenError(error, description) ==
    [ raised |-> "OAuthTokenError", error |-> error,
      description |-> description, result |-> None ]

\* response.json() (services/oauth_token.py:42): the parsed body, or
\* json.JSONDecodeError when the body is not JSON.
response_json(response) ==
    IF response.is_json
    THEN [raised |-> "", result |-> Some(response.body)]
    ELSE [raised |-> "JSONDecodeError", result |-> None]

\* _post_token_request (services/oauth_token.py:35-49) for the response the
\* endpoint gave: the parsed body it returns, or what it raises.
_post_token_request(response) ==
    LET parsed == response_json(response)
        result == Val(parsed.result)
    IN  IF parsed.raised # ""
        THEN [ raised |-> parsed.raised, error |-> "", description |-> None,
               result |-> None ]
        ELSE IF response.status_code # 200
        THEN OAuthTokenError(json_get(result, "error", "unknown_error"),
                             json_get(result, "error_description", None))
        ELSE [ raised |-> "", error |-> "", description |-> None,
               result |-> parsed.result ]

Grants == { "authorization_code", "refresh_token" }

\* exchange_code_for_tokens (services/oauth_token.py:101-109) or
\* refresh_access_token (152-162) posts its grant and gets `response`.
PostToken(p, grant, response) ==
    LET posted == _post_token_request(response)
        c == [IdleCtx EXCEPT !.kind = grant, !.response = Some(response)]
    IN  /\ ctx[p].pc \in {"idle", "done", "crashed"}
        /\ issued < MaxPostCalls
        /\ issued' = issued + 1
        /\ IF posted.raised # ""
           THEN Upd(p, Done([c EXCEPT !.exc = Some(posted)],
                            "raise:" \o posted.raised))
           ELSE Upd(p, Done([c EXCEPT !.resp =
                      IF grant = "authorization_code"
                      THEN exchange_code_for_tokens(Val(posted.result))
                      ELSE refresh_access_token(Val(posted.result),
                                                "refresh_0")],
                            "tokens"))
        /\ UNCHANGED << now, service, row, completed, statevars >>

\* ------------------------------------------------------- specifications
\* The rows a user_integrations table can hold at time 0.  refresh_locked_at
\* and last_refresh_attempt are the two columns token_refresh.py reads and
\* writes (lines 161, 185, 207-208, 224), NULL until a refresh is attempted.
InitialRows ==
    { [ access_token_encrypted |-> a,
        refresh_token_encrypted |-> r,
        expires_at |-> e,
        id |-> Some(1),
        scopes |-> Some("scope_0"),
        provider_client_id |-> Some("client_0"),
        created_at |-> 0,
        updated_at |-> 0,
        refresh_locked_at |-> None,
        last_refresh_attempt |-> None ] :
      a \in AccessCiphers, r \in RefreshCiphers, e \in InitialExpiry }

RefreshStep(p) ==
    \/ RefreshLoad(p)
    \/ RefreshCheck(p)
    \/ RefreshLockWrite(p)
    \/ RefreshDecrypt(p)
    \/ \E response \in TokenResponses : ProviderAnswers(p, response)
    \/ \E error \in ProviderErrors : ProviderFails(p, error)
    \/ RefreshUpsert(p)
    \/ RefreshRelease(p)
    \/ RefreshExcept(p)

GvtStep(p) ==
    \/ GvtLoad(p)
    \/ GvtCheck(p)
    \/ GvtAfter(p)
    \/ GvtReload(p)
    \/ GvtDecrypt(p)

\* A server that has started: the dict is empty (services/oauth_config.py:68)
\* and the sweeper has not been created.
InitMem ==
    /\ _oauth_states = [k \in StateKeys |-> None]
    /\ mem = IdleMem
    /\ task = IdleTask

\* The state store before any OAuth flow has started.
InitStore ==
    /\ states = [k \in StateKeys |-> None]
    /\ sctx = [p \in Procs |-> IdleState]
    /\ delivered = [k \in StateKeys |-> 0]
    /\ used = {}
    /\ rejected = {}
    /\ flows = [k \in StateKeys |-> None]
    /\ integrations = {}
    /\ nextid = 1
    /\ cb = [p \in Procs |-> IdleCallback]
    /\ InitMem

\* Concurrent refresh_integration_token calls on one expired integration.
Init ==
    /\ now = 0
    /\ service = "google_drive"
    /\ row \in { Some(r) : r \in { x \in InitialRows : x.expires_at = Some(-1) } }
    /\ ctx = [p \in Procs |-> IdleCtx]
    /\ completed = None
    /\ issued = 0
    /\ InitStore

Next ==
    \/ \E d \in TickDeltas : Tick(d)
    \/ \E p \in Procs : StartRefresh(p)
    \/ \E p \in Procs : RefreshStep(p)
    \/ \E p \in Procs : Crash(p)

Spec == Init /\ [][Next]_vars

\* Refresh calls on one expired integration that its user disconnects.
NextDisconnect ==
    \/ \E p \in Procs : StartRefresh(p)
    \/ \E p \in Procs : RefreshStep(p)
    \/ DeleteIntegration

SpecDisconnect == Init /\ [][NextDisconnect]_vars

\* Concurrent get_valid_token calls on one integration of any service.
InitToken ==
    /\ now = 0
    /\ service \in Services
    /\ row \in { Some(r) : r \in InitialRows }
    /\ ctx = [p \in Procs |-> IdleCtx]
    /\ completed = None
    /\ issued = 0
    /\ InitStore

NextToken ==
    \/ \E d \in TickDeltas : Tick(d)
    \/ \E p \in Procs : StartGetValidToken(p)
    \/ \E p \in Procs : GvtStep(p)
    \/ \E p \in Procs : RefreshStep(p)

SpecToken == InitToken /\ [][NextToken]_vars

RetryStep(p) ==
    \/ RetryLoad(p)
    \/ \E status \in StatusCodes : RequestAnswers(p, status)
    \/ RetryAfter(p)
    \/ RetryReload(p)
    \/ \E status \in StatusCodes : RetryAnswers(p, status)

\* Concurrent with_oauth_retry requests on one integration, or on none.
InitRetry ==
    /\ now = 0
    /\ service = "google_drive"
    /\ row \in {None} \cup { Some(r) : r \in InitialRows }
    /\ ctx = [p \in Procs |-> IdleCtx]
    /\ completed = None
    /\ issued = 0
    /\ InitStore

NextRetry ==
    \/ \E p \in Procs : StartWithRetry(p)
    \/ \E p \in Procs : RetryStep(p)
    \/ \E p \in Procs : RefreshStep(p)

SpecRetry == InitRetry /\ [][NextRetry]_vars

\* The same requests on a server that keeps running them: every awaited
\* call (request_func, the provider's token endpoint) returns, and the event
\* loop resumes each request that can go on.
SpecRetryLive ==
    /\ SpecRetry
    /\ \A p \in Procs : WF_vars(RetryStep(p) \/ RefreshStep(p))

\* Concurrent requests on the OAuth state store.
InitState ==
    /\ now = 0
    /\ service = "google_drive"
    /\ row = None
    /\ ctx = [p \in Procs |-> IdleCtx]
    /\ completed = None
    /\ issued = 0
    /\ InitStore

NextState ==
    \/ StateTick
    \/ \E p \in Procs, state \in StateKeys, user_id \in Users :
           StoreState(p, state, user_id, service,
                      Some(CodeVerifiers[state]), None)
    \/ \E p \in Procs, state \in StateKeys : GetState(p, state)
    \/ \E p \in Procs, state \in StateKeys,
          user_id \in {None} \cup {Some(u) : u \in Users} :
           StartConsume(p, state, user_id)
    \/ \E p \in Procs : ConsumeGet(p)
    \/ \E p \in Procs : ConsumeFinish(p)

SpecState == InitState /\ [][NextState]_vars

\* ------------------------------------------- the in-process state store
\* OAuthStateData (services/oauth_config.py:52-61); created_at defaults to
\* the time of construction.
OAuthStateData(service_name, redirect_uri, user_id, code_verifier, provider_client_id, t) ==
    [ user_id |-> user_id, service_name |-> service_name,
      redirect_uri |-> redirect_uri, code_verifier |-> code_verifier,
      provider_client_id |-> provider_client_id, created_at |-> t ]

\* services/oauth_config.py:189-197
store_oauth_state(table, state, state_data) ==
    [table EXCEPT ![state] = Some(state_data)]

\* services/oauth_config.py:200-210
get_oauth_state(table, state) == table[state]

\* services/oauth_config.py:213-237: the dict after the pop of line 224, and
\* what is returned.
consume_oauth_state(table, state, user_id, t) ==
    LET state_data == table[state]
    IN  [ table |-> [table EXCEPT ![state] = None],
          res   |-> IF IsNone(state_data) THEN None
                    ELSE IF t - Val(state_data).created_at
                              > STATE_EXPIRATION_MINUTES * 60 THEN None
                    ELSE IF ~IsNone(user_id)
                            /\ Val(state_data).user_id # Val(user_id) THEN None
                    ELSE state_data ]

\* The request whose calls are made on both stores.
Driver == CHOOSE p \in Procs : TRUE

\* Both stores have answered the same calls.
InStep == mem.n = issued /\ sctx[Driver].pc \in {"idle", "done"}

\* The call the database store has just answered is made on the dict, with
\* the same arguments at the same time.
MemCall ==
    LET c == sctx[Driver]
    IN  /\ c.pc = "done"
        /\ mem.n < issued
        /\ \/ /\ c.op = "store"
              /\ \E state \in used \ mem.keys :
                    LET f == Val(flows[state])
                        state_data == OAuthStateData(f.service_name, RedirectUri,
                                          f.user_id, f.code_verifier,
                                          f.provider_client_id, now)
                    IN  /\ _oauth_states' =
                              store_oauth_state(_oauth_states, state, state_data)
                        /\ mem' = [n |-> issued, op |-> "store", res |-> None,
                                   keys |-> mem.keys \cup {state}]
           \/ /\ c.op = "get"
              /\ mem' = [mem EXCEPT !.n = issued, !.op = "get",
                             !.res = get_oauth_state(_oauth_states, c.state)]
              /\ UNCHANGED _oauth_states
           \/ /\ c.op = "consume"
              /\ LET r == consume_oauth_state(_oauth_states, c.state,
                                              c.user_id, now)
                 IN  /\ _oauth_states' = r.table
                     /\ mem' = [mem EXCEPT !.n = issued, !.op = "consume",
                                           !.res = r.res]
        /\ UNCHANGED << now, service, row, ctx, completed, issued, states, sctx,
                        delivered, used, rejected, flows, tablevars, task >>

\* One sequence of store, get and consume calls, each made on the database
\* store and then on the dict, the clock advancing between calls.
NextStores ==
    \/ InStep /\ StateTick
    \/ \E state \in StateKeys, user_id \in Users :
           InStep /\ StoreState(Driver, state, user_id, service,
                                Some(CodeVerifiers[state]), None)
    \/ \E state \in StateKeys : InStep /\ GetState(Driver, state)
    \/ \E state \in StateKeys, user_id \in {None} \cup {Some(u) : u \in Users} :
           InStep /\ StartConsume(Driver, state, user_id)
    \/ ConsumeGet(Driver)
    \/ ConsumeFinish(Driver)
    \/ MemCall

SpecStores == InitState /\ [][NextStores]_vars

\* --------------------------------------------------- the periodic task
\* The stop_event argument: none, or an asyncio.Event that is not set.
StopEvents == { None, Some(FALSE) }

is_set_never(stop_event) == FALSE

\* stop_event is not None and stop_event.is_set()
\* (services/oauth_state_cleanup.py:60); stop_event.wait() returns when the
\* same holds (68).
is_set(stop_event) == ~IsNone(stop_event) /\ Val(stop_event)

TUpd(new) ==
    /\ task' = new
    /\ UNCHANGED << now, service, row, ctx, completed, issued, sctx, delivered,
                    used, rejected, flows, tablevars, _oauth_states, mem >>

\* The task is suspended in the event loop, or has not run yet: other
\* callbacks of the loop run only then.
Suspended == task.pc \in {"start", "wait", "recover"}

\* asyncio.create_task(run_cleanup_task(get_session=..., stop_event=...))
TaskCreate(stop_event) ==
    /\ task.pc = "none"
    /\ TUpd([task EXCEPT !.pc = "start", !.stop_event = stop_event])
    /\ UNCHANGED states

\* stop_event.set(), by the code that owns the event.
SetStop ==
    /\ Suspended
    /\ task.stop_event = Some(FALSE)
    /\ TUpd([task EXCEPT !.stop_event = Some(TRUE)])
    /\ UNCHANGED states

\* task.cancel(): CancelledError is thrown into the task where it is
\* suspended, the next time the loop runs it.
CancelTask ==
    /\ Suspended
    /\ ~task.cancel
    /\ TUpd([task EXCEPT !.cancel = TRUE])
    /\ UNCHANGED states

\* The first step of the task (services/oauth_state_cleanup.py:52-57); a task
\* cancelled before it ran never enters the loop.
TaskStart ==
    /\ task.pc = "start"
    /\ IF task.cancel
       THEN TUpd([task EXCEPT !.pc = "cancelled", !.cancel = FALSE])
       ELSE TUpd([task EXCEPT !.pc = "check"])
    /\ UNCHANGED states

\* services/oauth_state_cleanup.py:57-65, 77-78, 96
TaskCheck ==
    /\ task.pc = "check"
    /\ IF is_set(task.stop_event)
       THEN TUpd([task EXCEPT !.pc = "stopped", !.seen = TRUE])
       ELSE TUpd([task EXCEPT !.pc = "wait"])
    /\ UNCHANGED states

\* The task is resumed from wait_for(stop_event.wait(), timeout) or from
\* sleep (services/oauth_state_cleanup.py:65-78, 88-90, 96): with
\* CancelledError, which line 90 raises again; with the event set, which
\* breaks the loop; or with the interval elapsed.  A cancellation goes
\* before the elapsed interval; when the event was set as well as the task
\* cancelled or the interval elapsed, which of the two the task sees depends
\* on their order and on the asyncio version.
TaskWait ==
    /\ task.pc = "wait"
    /\ \/ /\ task.cancel
          /\ TUpd([task EXCEPT !.pc = "cancelled", !.cancel = FALSE])
       \/ /\ is_set(task.stop_event)
          /\ TUpd([task EXCEPT !.pc = "stopped", !.seen = TRUE])
       \/ /\ ~task.cancel
          /\ task.passes < MaxPasses
          /\ TUpd([task EXCEPT !.pc = "cleanup"])
    /\ UNCHANGED states

\* One cleanup pass (services/oauth_state_cleanup.py:80-86, 91-93), which
\* has no await in it: cleanup_expired_states_db deletes what it selects and
\* commits, or get_session or the database raises and nothing is deleted.
TaskCleanup ==
    LET expired_states ==
            { k \in StateKeys : /\ ~IsNone(states[k])
                                /\ cleanup_selects(Val(states[k]), now) }
    IN  /\ task.pc = "cleanup"
        /\ \/ /\ states' = [k \in StateKeys |->
                                IF k \in expired_states THEN None ELSE states[k]]
              /\ TUpd([task EXCEPT !.pc = "check", !.passes = @ + 1])
           \/ /\ UNCHANGED states
              /\ TUpd([task EXCEPT !.pc = "recover", !.passes = @ + 1,
                                   !.errors = @ + 1])

\* The task is resumed from the sleep of the handler
\* (services/oauth_state_cleanup.py:94): with CancelledError, which leaves
\* the coroutine from inside the handler, or with the interval elapsed.
TaskRecover ==
    /\ task.pc = "recover"
    /\ IF task.cancel
       THEN TUpd([task EXCEPT !.pc = "cancelled", !.cancel = FALSE])
       ELSE TUpd([task EXCEPT !.pc = "check"])
    /\ UNCHANGED states

\* The steps the event loop takes for the task.
TaskStep ==
    TaskStart \/ TaskCheck \/ TaskWait \/ TaskCleanup \/ TaskRecover

\* The periodic task runs while flows store states and the clock advances;
\* its owner may set the event or cancel the task.
NextTask ==
    \/ StateTick
    \/ \E state \in StateKeys :
           StoreState(Driver, state, 1, service, Some(CodeVerifiers[state]), None)
    \/ \E stop_event \in StopEvents : TaskCreate(stop_event)
    \/ SetStop
    \/ CancelTask
    \/ TaskStart
    \/ TaskCheck
    \/ TaskWait
    \/ TaskCleanup
    \/ TaskRecover

\* The event loop runs a task that is ready.
SpecTask == InitState /\ [][NextTask]_vars /\ WF_vars(TaskStep)

\* Flows are started and their callbacks consume the state while the
\* periodic sweep runs and the clock advances.
NextSweep ==
    \/ StateTick
    \/ \E p \in Procs, state \in StateKeys :
           StoreState(p, state, 1, service, Some(CodeVerifiers[state]), None)
    \/ \E p \in Procs, state \in StateKeys : StartConsume(p, state, None)
    \/ \E p \in Procs : ConsumeGet(p)
    \/ \E p \in Procs : ConsumeFinish(p)
    \/ \E p \in Procs : CleanupSelect(p)
    \/ \E p \in Procs : CleanupCommit(p)

SpecSweep == InitState /\ [][NextSweep]_vars

\* A row of the integrations table for the list and status routes.
StatusRow(user_id, service_name, expires_at, id) ==
    [ user_id |-> user_id, service_name |-> service_name,
      cols |-> [ access_token_encrypted |-> encrypt("access_0"),
                 refresh_token_encrypted |-> Some(encrypt("refresh_0")),
                 expires_at |-> expires_at,
                 id |-> Some(id),
                 scopes |-> Some("scope_0"),
                 provider_client_id |-> None,
                 created_at |-> 0,
                 updated_at |-> 0,
                 refresh_locked_at |-> None,
                 last_refresh_attempt |-> None ] ]

RowIds == [s \in Services |->
             IF s = "google_drive" THEN 1 ELSE IF s = "dataverse" THEN 2 ELSE 3]

\* The tables the routes can find: the first user has a row or none for
\* each service, Google Drive's with no expiry or one 10 minutes ahead,
\* Dataverse's with that expiry, the third with none; the second user has
\* an expired Google Drive integration.
StatusTables ==
    { { StatusRow(1, s, IF s = "google_drive" THEN expiry
                        ELSE IF s = "dataverse" THEN Some(600) ELSE None,
                  RowIds[s]) : s \in present }
      \cup { StatusRow(2, "google_drive", Some(-1), 4) } :
        present \in SUBSET Services, expiry \in {None, Some(600)} }

InitStatus ==
    /\ now = 0
    /\ service = "google_drive"
    /\ row = None
    /\ ctx = [p \in Procs |-> IdleCtx]
    /\ completed = None
    /\ issued = 0
    /\ states = [k \in StateKeys |-> None]
    /\ sctx = [p \in Procs |-> IdleState]
    /\ delivered = [k \in StateKeys |-> 0]
    /\ used = {}
    /\ rejected = {}
    /\ flows = [k \in StateKeys |-> None]
    /\ integrations \in StatusTables
    /\ nextid = 5
    /\ cb = [p \in Procs |-> IdleCallback]
    /\ InitMem

\* Concurrent list and status requests, the clock running.
NextStatus ==
    \/ StateTick
    \/ \E p \in Procs, user_id \in Users,
          available_services \in AvailableServices :
           GetStatus(p, user_id, available_services)
    \/ \E p \in Procs, user_id \in Users : ListIntegrations(p, user_id)

SpecStatus == InitStatus /\ [][NextStatus]_vars

\* Concurrent token requests, whatever the endpoint answers.
NextPost ==
    \E p \in Procs, grant \in Grants, response \in HttpResponses :
        PostToken(p, grant, response)

SpecPost == InitState /\ [][NextPost]_vars

\* POST /oauth/start stores a state for the signed-in user; the provider
\* redirects to the callback; the user may disconnect.  The provider is
\* configured, and a dynamically registered client has its client_id.
StartedFlows ==
    { f \in [ service_name : CallbackServices,
              provider_client_id : {None, Some("client_dyn")} ] :
        uses_dynamic_registration(f.service_name)
            <=> ~IsNone(f.provider_client_id) }

NextCallback ==
    \/ \E p \in Procs, state \in StateKeys, user_id \in Users,
          f \in StartedFlows :
           StartFlow(p, state, user_id, f.service_name,
                     f.provider_client_id, TRUE)
    \/ \E p \in Procs, r \in CallbackRequests :
           StartCallback(p, r.service, r.code, r.state, r.error)
    \/ \E p \in Procs : ConsumeGet(p)
    \/ \E p \in Procs : ConsumeFinish(p)
    \/ \E p \in Procs : CallbackConsumed(p)
    \/ \E p \in Procs, shape \in ExchangeShapes : ExchangeAnswers(p, shape)
    \/ \E p \in Procs, error \in ExchangeErrors : ExchangeFails(p, error)
    \/ \E p \in Procs : UpsertSelect(p)
    \/ \E p \in Procs : UpsertCommit(p)
    \/ \E user_id \in Users, service_name \in CallbackServices :
           Disconnect(user_id, service_name)

SpecCallback == InitState /\ [][NextCallback]_vars

\* The requests that reach build_authorization_url_db: any service name, a
\* provider_client_id given, empty or not given, and the provider's settings
\* there or, for a service that has a builder, not there.
StartRequests ==
    { r \in [ service_name : Services,
              provider_client_id : {None, Some(""), Some("client_dyn")},
              configured : BOOLEAN ] :
        \/ r.configured
        \/ r.service_name = "google_drive" /\ IsNone(r.provider_client_id)
        \/ r.service_name = "dataverse"
              /\ r.provider_client_id = Some("client_dyn") }

\* Concurrent requests that start OAuth flows, the clock running.
NextStart ==
    \/ StateTick
    \/ \E p \in Procs, state \in StateKeys, user_id \in Users,
          r \in StartRequests :
           StartFlow(p, state, user_id, r.service_name, r.provider_client_id,
                     r.configured)

SpecStart == InitState /\ [][NextStart]_vars

\* Concurrent calls of create_or_update_integration, the clock running.
NextUpsert ==
    \/ StateTick
    \/ \E p \in Procs, user_id \in Users, args \in UpsertArgs :
           StartUpsert(p, user_id, service, args)
    \/ \E p \in Procs : UpsertSelect(p)
    \/ \E p \in Procs : UpsertCommit(p)

SpecUpsert == InitState /\ [][NextUpsert]_vars

\* The caller of a refresh that failed, or whose server died, asks again
\* (api/routes/v1/users.py:38-48 refreshes on every request while the token is
\* expired).
Retry(p) ==
    /\ \/ ctx[p].pc = "crashed"
       \/ ctx[p].pc = "done" /\ ctx[p].res = "False"
    /\ Upd(p, [IdleCtx EXCEPT !.pc = "r_load", !.kind = "refresh",
                           !.refreshes = 1])
    /\ UNCHANGED << now, service, row, completed, issued, statevars >>

\* Every caller has just asked for a refresh of the expired integration.
InitRecover ==
    /\ now = 0
    /\ service = "google_drive"
    /\ row \in { Some(r) : r \in { x \in InitialRows : x.expires_at = Some(-1) } }
    /\ ctx = [p \in Procs |-> [IdleCtx EXCEPT !.pc = "r_load",
                                              !.kind = "refresh",
                                              !.refreshes = 1]]
    /\ completed = None
    /\ issued = Cardinality(Procs)
    /\ InitStore

NextRecover ==
    \/ \E d \in TickDeltas : Tick(d)
    \/ \E p \in Procs : RefreshStep(p)
    \/ \E p \in Procs : Crash(p)
    \/ \E p \in Procs : Retry(p)

\* Refresh calls with callers that keep asking: the clock advances and the
\* server keeps running some call or some caller that asks again.
SpecRecover ==
    /\ InitRecover
    /\ [][NextRecover]_vars
    /\ WF_vars(\E d \in TickDeltas : Tick(d))
    /\ WF_vars(\E p \in Procs : RefreshStep(p) \/ Retry(p))

\* =========================================================== properties
\* The steps of a call, as seen in one transition.
Checks(p) == ctx[p].pc = "r_check" /\ ctx'[p].pc # "r_check"
RefreshReturns(p) == ctx[p].refreshed = "" /\ ctx'[p].refreshed # ""
WritesLock(p) == ~ctx[p].acquired /\ ctx'[p].acquired

\* The time at which a call awaiting the provider wrote its lock: its Session
\* object was refreshed right after that commit.
LockTime(p) == Val(Val(ctx[p].obj).refresh_locked_at)

Distance(a, b) == IF a < b THEN b - a ELSE a - b

\* C1 -- refresh lock mutual exclusion: of two concurrent
\* refresh_integration_token calls on the same integration that acquire within
\* the 30 s lock timeout of each other, only one invokes the provider token
\* endpoint; no two such calls are awaiting refresh_access_token together.
C1_RefreshMutualExclusion ==
    \A p, q \in Procs :
        (p # q /\ ctx[p].pc = "r_provider" /\ ctx[q].pc = "r_provider")
            => Distance(LockTime(p), LockTime(q)) >= REFRESH_LOCK_TIMEOUT_SECONDS

C3_LockReleasedOnReturn ==
    [][ \A p \in Procs :
            (RefreshReturns(p) /\ ctx'[p].acquired)
                => IsNone(Val(row').refresh_locked_at) ]_vars

\* C4 -- at most one provider refresh call in flight per 30 s window, at
\* most one attempt (lock acquisition) per 60 s window, and at most one
\* successful refresh completed per 30 s window.
C4_OnePerWindow ==
    [][ /\ C1_RefreshMutualExclusion
        /\ \A p \in Procs :
              WritesLock(p) =>
                \/ IsNone(Val(row).last_refresh_attempt)
                \/ now - Val(Val(row).last_refresh_attempt) >= RATE_LIMIT_SECONDS
        /\ \A p \in Procs :
              (RefreshReturns(p) /\ ctx'[p].refreshed = "True") =>
                \/ IsNone(completed)
                \/ now - Val(completed) >= REFRESH_LOCK_TIMEOUT_SECONDS
      ]_vars

\* C5 -- stale-lock recovery: a call that is not rate-limited and finds a
\* refresh_locked_at 30 s old or older does not skip: it overwrites the lock
\* with its own and goes on to the provider (when a refresh token is stored
\* and decrypts); only a lock younger than 30 s makes a call skip.  So the
\* lock of a holder that died is eventually overridden by a later call.
StaleLockSeen(p) ==
    LET integration == Val(ctx[p].obj)
    IN  /\ ~IsNone(integration.refresh_locked_at)
        /\ now - Val(integration.refresh_locked_at) >= 30
        /\ \/ IsNone(integration.last_refresh_attempt)
           \/ now - Val(integration.last_refresh_attempt) >= 60

DeadHolder ==
    /\ \E p \in Procs : ctx[p].pc = "crashed"
    /\ row # None /\ Val(row).refresh_locked_at = Some(0)
    /\ \A p \in Procs : ~(ctx[p].acquired /\ ctx[p].pc \notin {"done", "crashed"})

Overridden ==
    \E q \in Procs :
        /\ ctx[q].pc = "r_decrypt"
        /\ Val(row).refresh_locked_at = Some(now)
        /\ now >= REFRESH_LOCK_TIMEOUT_SECONDS

C5_StaleLockRecovery ==
    /\ [][ \A p \in Procs :
            /\ (Checks(p) /\ StaleLockSeen(p)) => ctx'[p].pc = "r_lockwrite"
            /\ (Checks(p) /\ ctx'[p].skip = "lock") =>
                   now - Val(Val(ctx[p].obj).refresh_locked_at) < 30
            /\ WritesLock(p) => Val(row').refresh_locked_at = Some(now)
            /\ (ctx[p].pc = "r_decrypt" /\ ctx'[p].pc # "r_decrypt"
                  /\ ~get_decrypted_tokens(Val(ctx[p].obj)).raised
                  /\ ~IsNone(Val(ctx[p].obj).refresh_token_encrypted))
                  => ctx'[p].pc = "r_provider" /\ ctx'[p].calls = 1
       ]_vars
    /\ DeadHolder ~> Overridden

C5_Witness ==
    \E p, q \in Procs :
        /\ ctx[p].pc = "crashed"
        /\ ctx[q].pc = "r_provider" /\ ctx[q].calls = 1
        /\ LockTime(q) >= REFRESH_LOCK_TIMEOUT_SECONDS

\* The steps of a get_valid_token call, as seen in one transition.
GvtSteps(p, at) == ctx[p].pc = at /\ ctx'[p].pc # at
Decryptable(integration) == ~get_decrypted_tokens(integration).raised

\* C6 -- graceful degradation: when the refresh get_valid_token asked for
\* returned False, a token that is already expired (now > expires_at) makes
\* get_valid_token return None; a token that is only expiring soon makes it
\* return the access token it holds for the integration, decrypted.
C6_GracefulDegradation ==
    [][ \A p \in Procs :
          /\ (GvtSteps(p, "g_after") /\ ctx[p].refreshed = "False") =>
                LET e == Val(ctx[p].obj).expires_at
                IN  IF ~IsNone(e) /\ now > Val(e)
                    THEN ctx'[p].pc = "done" /\ ctx'[p].res = "None"
                    ELSE ctx'[p].pc = "g_reload"
          /\ (GvtSteps(p, "g_reload") /\ ctx[p].refreshed = "False") =>
                ctx'[p].pc = "g_decrypt" /\ ctx'[p].obj = ctx[p].obj
          /\ (GvtSteps(p, "g_decrypt") /\ ctx[p].refreshed = "False"
                /\ Decryptable(Val(ctx[p].obj))) =>
                /\ ctx'[p].pc = "done"
                /\ ctx'[p].res = Val(ctx[p].obj).access_token_encrypted.pt
                /\ row' = row
      ]_vars

C6_Witness ==
    \E p, q \in Procs :
        /\ ctx[p].kind = "get_valid_token" /\ ctx[p].pc = "done"
        /\ ctx[p].refreshed = "False" /\ ctx[p].res = "access_0"
        /\ ctx[q].kind = "get_valid_token" /\ ctx[q].pc = "done"
        /\ ctx[q].refreshed = "False" /\ ctx[q].res = "None"

\* C7 -- get_valid_token returns None, and does not raise, when the access
\* token it is about to return cannot be decrypted.
C7_NoneOnDecryptFailure ==
    [][ \A p \in Procs :
          (GvtSteps(p, "g_decrypt")
             /\ decrypt(Val(ctx[p].obj).access_token_encrypted) = InvalidToken)
          => ctx'[p].res = "None" ]_vars

\* C8 -- get_valid_token attempts a refresh if and only if expires_at is set
\* and is in the past or less than the service threshold ahead of now (60
\* minutes for dataverse, 5 minutes for any other service); otherwise it
\* returns the stored access token, having made no provider call and no
\* change to the integration row.
C8_RefreshIffDue ==
    [][ \A p \in Procs :
          /\ (GvtSteps(p, "g_load") /\ ctx'[p].pc # "done") =>
                ctx'[p].obj = row /\ ctx'[p].pc = "g_check"
          /\ GvtSteps(p, "g_check") =>
                LET e == Val(ctx[p].obj).expires_at
                    threshold == IF service = "dataverse" THEN 60 ELSE 5
                    due == /\ ~IsNone(e)
                           /\ \/ now > Val(e)
                              \/ Val(e) < now + threshold * 60
                IN  /\ due <=> ctx'[p].pc = "r_load"
                    /\ ~due <=> ctx'[p].pc = "g_decrypt"
                    /\ row' = row
          /\ (GvtSteps(p, "g_decrypt") /\ ctx[p].refreshed = "") =>
                /\ ctx[p].calls = 0 /\ ~ctx[p].acquired
                /\ row' = row
                /\ Decryptable(Val(ctx[p].obj)) =>
                      ctx'[p].res = Val(ctx[p].obj).access_token_encrypted.pt
          /\ (ctx[p].kind = "get_valid_token" /\ ctx[p].refreshed = ""
                /\ ctx'[p].refreshed # "") => ctx[p].pc # "g_decrypt"
      ]_vars

C8_Witness ==
    \E p, q \in Procs :
        /\ service = "dataverse"
        /\ ctx[p].kind = "get_valid_token" /\ ctx[p].pc = "done"
        /\ ctx[p].refreshed = "" /\ ctx[p].res = "access_0"
        /\ ctx[q].kind = "get_valid_token" /\ ctx[q].pc = "done"
        /\ ctx[q].refreshed = "True" /\ ctx[q].res = "access_new"

\* The step in which a consume call returns the state's data.
ConsumeReturnsData(p) ==
    /\ sctx[p].pc = "c_finish" /\ sctx'[p].pc = "done"
    /\ ~IsNone(sctx'[p].res)

\* C9 -- single use: when consume(state) returns the state data the record
\* is gone and stays gone; a consume(state) or get(state) that begins after
\* that returns None.
C9_SingleUse ==
    [][ /\ \A p \in Procs :
              ConsumeReturnsData(p) => IsNone(states'[sctx[p].state])
        /\ \A k \in StateKeys :
              delivered[k] > 0 => IsNone(states'[k])
        /\ \A p \in Procs :
              (sctx[p].pc # "done" /\ sctx'[p].pc = "done" /\ sctx'[p].after)
                  => IsNone(sctx'[p].res)
      ]_vars

C9_Witness ==
    \E p, q \in Procs :
        /\ p # q /\ sctx[p].state = sctx[q].state
        /\ sctx[p].op = "consume" /\ sctx[p].pc = "done" /\ ~IsNone(sctx[p].res)
        /\ sctx[q].op = "consume" /\ sctx[q].pc = "done" /\ sctx[q].after
        /\ IsNone(sctx[q].res)

\* C10 -- consumed exactly once or expired: of all consume(state) calls on
\* one state, however interleaved, at most one returns the state data, and
\* none returns the data of a state older than 10 minutes.
C10_ConsumedAtMostOnce ==
    [][ /\ \A k \in StateKeys : delivered'[k] <= 1
        /\ \A p \in Procs :
              ConsumeReturnsData(p) =>
                  now - Val(sctx'[p].res).created_at <= 10 * 60
      ]_vars

\* The step in which a consume call that found the record returns.
Finishes(p) == sctx[p].pc = "c_finish" /\ sctx'[p].pc = "done"
FoundAge(p) == now - Val(sctx[p].obj).created_at
UserGiven(p) == ~IsNone(sctx[p].user_id)
WrongUser(p) ==
    UserGiven(p) /\ Val(sctx[p].user_id) # Val(sctx[p].obj).user_id

\* C11 -- consume(state, user_id) with a user_id other than the stored one
\* returns None and leaves the record as it is; a consume with the stored
\* user_id, or with none, returns the state data as long as the state has
\* not expired.
C11_MismatchKeepsState ==
    [][ \A p \in Procs :
          /\ (Finishes(p) /\ WrongUser(p)
                /\ FoundAge(p) <= STATE_EXPIRATION_MINUTES * 60) =>
                /\ IsNone(sctx'[p].res)
                /\ states' = states
                /\ delivered' = delivered
          /\ (Finishes(p) /\ ~WrongUser(p)
                /\ FoundAge(p) <= STATE_EXPIRATION_MINUTES * 60) =>
                sctx'[p].res = sctx[p].obj
      ]_vars

C11_Witness ==
    \E p, q \in Procs :
        /\ p # q /\ sctx[p].state = sctx[q].state
        /\ sctx[p].pc = "done" /\ sctx[p].exit = "mismatch"
        /\ IsNone(sctx[p].res)
        /\ sctx[q].pc = "done" /\ sctx[q].op = "consume"
        /\ sctx[q].after_reject /\ sctx[q].exit = "ok"
        /\ ~IsNone(sctx[q].res)
        /\ Val(sctx[q].res).user_id # Val(sctx[p].user_id)

\* C12 -- expiry boundary: a state found STATE_EXPIRATION_MINUTES - 1 minutes
\* (or less) after its creation is not expired and is consumed; one found
\* STATE_EXPIRATION_MINUTES + 1 minutes (or more) after it is expired:
\* consume returns None and deletes the record, whatever user_id it is given.
C12_ExpiryBoundary ==
    [][ \A p \in Procs :
          /\ (Finishes(p) /\ FoundAge(p) <= (10 - 1) * 60 /\ ~WrongUser(p)) =>
                /\ sctx'[p].res = sctx[p].obj
                /\ IsNone(states'[sctx[p].state])
          /\ (Finishes(p) /\ FoundAge(p) >= (10 + 1) * 60) =>
                /\ IsNone(sctx'[p].res)
                /\ IsNone(states'[sctx[p].state])
                /\ delivered' = delivered
      ]_vars

C12_Witness ==
    \E p, q \in Procs :
        /\ sctx[p].pc = "done" /\ sctx[p].exit = "ok"
        /\ Val(sctx[p].res).created_at = 0 /\ now >= (10 - 1) * 60
        /\ sctx[q].pc = "done" /\ sctx[q].exit = "expired"
        /\ UserGiven(q) /\ now = (10 + 1) * 60
        /\ IsNone(states[sctx[q].state])

\* ------------------------------------------------ the OAuth callback
\* The redirects with which the callback refuses a request.
Rejections ==
    { "error:OAuth error", "error:Missing authorization code",
      "error:Missing state parameter",
      "error:Invalid or expired state parameter",
      "error:Service mismatch in callback" }

\* The request of p has got as far as the token endpoint.
PastExchange(p) == cb[p].pc \in {"cb_exchange", "cb_select", "cb_commit"}

\* The request of p is refused with `out` and the state store is as it was.
Refused(p, out) ==
    /\ cb'[p].out = out
    /\ cb'[p].pc = "done"
    /\ sctx' = sctx /\ states' = states /\ delivered' = delivered

\* What the callback answers the request r of p with, by the order of the
\* checks on its parameters.
CheckedInOrder(p, r) ==
    IF ~IsNone(r.error) THEN Refused(p, "error:OAuth error")
    ELSE IF IsNone(r.code) THEN Refused(p, "error:Missing authorization code")
    ELSE IF IsNone(r.state) THEN Refused(p, "error:Missing state parameter")
    ELSE cb'[p].pc = "cb_consume" /\ sctx'[p].pc = "c_get"

\* C13 -- The callback checks, in this order: the provider's error, a missing
\* code, a missing state, a state that consume does not return, a service in
\* the path that differs from the state's.  The first check that fails
\* decides the redirect; a request refused by one of the first three leaves
\* the state store as it was; no refused request has reached the token
\* endpoint or changes the integrations table.  (A step that is not the
\* start of request r is recognised by its answer where that is enough.)
C13_CallbackCheckOrder ==
    [][\A p \in Procs :
        /\ /\ cb[p].pc \in {"idle", "done"}
           /\ issued' = issued + 1 /\ used' = used
           /\ integrations' = integrations
           /\ (cb'[p] # cb[p] \/ cb' = cb)
           => \A r \in CallbackRequests :
                 \/ CheckedInOrder(p, r)
                 \/ cb'[p].out # callback_check(r.error, r.code, r.state)
                 \/ ~StartCallback(p, r.service, r.code, r.state, r.error)
        /\ cb[p].pc = "cb_consume" /\ cb'[p].pc # "cb_consume" =>
              /\ IsNone(sctx[p].res) =>
                    /\ cb'[p].pc = "done"
                    /\ cb'[p].out = "error:Invalid or expired state parameter"
              /\ ~IsNone(sctx[p].res) /\
                    Val(sctx[p].res).service_name # cb[p].service =>
                    /\ cb'[p].pc = "done"
                    /\ cb'[p].out = "error:Service mismatch in callback"
              /\ ~IsNone(sctx[p].res) /\
                    Val(sctx[p].res).service_name = cb[p].service =>
                    cb'[p].pc = "cb_exchange"
        /\ cb'[p] # cb[p] /\ cb'[p].out \in Rejections =>
              /\ ~PastExchange(p)
              /\ integrations' = integrations
     ]_vars

\* A callback was refused by the last of the checks, after its state was
\* consumed, while another user's integration exists.
C13_Witness ==
    \E p \in Procs :
        /\ cb[p].out = "error:Service mismatch in callback"
        /\ integrations # {}
        /\ \E k \in StateKeys : delivered[k] > 0

\* The rows of the integrations table for a user and a service.
RowsOf(table, user_id, service_name) ==
    { r \in table : r.user_id = user_id /\ r.service_name = service_name }

\* The callback of p stores its tokens and answers that the service is
\* connected.
Connects(p) == cb[p].pc = "cb_commit" /\ cb'[p].out = "connected"

\* C14 -- When a callback succeeds, the integrations table holds exactly one
\* row for the user who started the flow of its state and for that flow's
\* service; the row holds the tokens the exchange answered with; and the
\* exchange was made with the code of the request and the redirect_uri,
\* code_verifier and provider_client_id stored when the flow started.
C14_CallbackStoresForStarter ==
    [][\A p \in Procs : Connects(p) =>
          LET state == Val(cb[p].state)
              flow == Val(flows[state])
              rows == RowsOf(integrations', flow.user_id, flow.service_name)
          IN  /\ Cardinality(rows) = 1
              /\ cb[p].service = flow.service_name
              /\ \A r \in rows :
                    \E shape \in ExchangeShapes :
                       LET result == ExchangeResponse(state, shape)
                       IN  /\ decrypt(r.cols.access_token_encrypted) =
                                 result.access_token
                           /\ "refresh_token" \in result.keys =>
                                 /\ ~IsNone(r.cols.refresh_token_encrypted)
                                 /\ decrypt(Val(r.cols.refresh_token_encrypted))
                                       = Val(result.refresh_token)
              /\ cb[p].sent =
                    Some([ code |-> Val(cb[p].code),
                           redirect_uri |-> RedirectUri,
                           code_verifier |-> flow.code_verifier,
                           provider_client_id |-> flow.provider_client_id ])
     ]_vars

\* A callback has connected Dataverse, whose client was registered
\* dynamically, for the second user with the tokens of flow state_b, while
\* the first user has an integration of their own.
C14_Witness ==
    /\ \E p \in Procs : cb[p].out = "connected"
    /\ \E r \in RowsOf(integrations, 2, "dataverse") :
          /\ decrypt(r.cols.access_token_encrypted) = "access_state_b"
          /\ r.cols.provider_client_id = Some("client_dyn")
    /\ \E s \in CallbackServices : RowsOf(integrations, 1, s) # {}

\* The answers of the callback that are redirects to the settings page.
Redirects == Rejections \cup { "error:Token exchange failed", "connected" }

\* C15 -- Every callback that fails, a failed token exchange of any kind
\* included, is answered with a redirect that carries an error; no exception
\* leaves the handler.
C15_FailuresRedirect ==
    \A p \in Procs : cb[p].pc = "done" => cb[p].out \in Redirects

\* ------------------------------------- create_or_update_integration
\* The call of p commits and returns the integration.
Upserts(p) == cb[p].pc = "cb_commit" /\ cb'[p].out = "connected"

\* The rows of the pair the call of p is about, before and after a step.
RowsBefore(p) == RowsOf(integrations, Val(cb[p].user_id), cb[p].service)

RowsAfter(p) == RowsOf(integrations', Val(cb[p].user_id), cb[p].service)

\* C16 -- A call for a pair that has a row finds that row, and when it
\* returns the pair still has one row, with the id it had, holding the
\* tokens of this call, and with the provider_client_id it had when the
\* call gives none.
C16_UpsertIdempotent ==
    [][\A p \in Procs :
        /\ cb[p].pc = "cb_select" /\ cb'[p].pc = "cb_commit" =>
              (IsNone(cb'[p].obj) <=> RowsBefore(p) = {})
        /\ Upserts(p) /\ RowsBefore(p) # {} =>
              /\ Cardinality(RowsAfter(p)) = 1
              /\ \A old \in RowsBefore(p), new \in RowsAfter(p) :
                    /\ new.cols.id = old.cols.id
                    /\ decrypt(new.cols.access_token_encrypted) =
                          cb[p].tokens.access_token
                    /\ ~IsNone(cb[p].tokens.refresh_token) =>
                          new.cols.refresh_token_encrypted =
                             Some(encrypt(Val(cb[p].tokens.refresh_token)))
                    /\ IsNone(cb[p].provider_client_id) =>
                          new.cols.provider_client_id =
                             old.cols.provider_client_id
     ]_vars

\* The first user's row, inserted with client_1, was updated by a call that
\* gave no provider_client_id: same id, the new access token, client_1 kept.
C16_Witness ==
    /\ nextid = 2
    /\ \E r \in RowsOf(integrations, 1, service) :
          /\ r.cols.id = Some(1)
          /\ decrypt(r.cols.access_token_encrypted) = "access_3"
          /\ r.cols.provider_client_id = Some("client_1")

\* C17 -- In every reachable state the integrations table holds at most one
\* row for each user and service, two concurrent first calls for one pair
\* included.
C17_OneRowPerPair ==
    \A user_id \in Users, service_name \in CallbackServices :
        Cardinality(RowsOf(integrations, user_id, service_name)) <= 1

\* Two callbacks of one user both found no row; the second INSERT was
\* refused and the pair has its one row.
C17_Witness ==
    /\ \E p \in Procs : cb[p].out = "raise:IntegrityError"
    /\ \E user_id \in Users, service_name \in CallbackServices :
          Cardinality(RowsOf(integrations, user_id, service_name)) = 1

\* C18 -- A call for a pair that has a row overwrites only what it is given:
\* when it gives no refresh_token, expires_in, scopes or provider_client_id,
\* the row keeps its refresh token, expires_at, scopes and
\* provider_client_id; updated_at becomes the time of the call.
C18_UpsertFrame ==
    [][\A p \in Procs :
        Upserts(p) /\ RowsBefore(p) # {} =>
           \A old \in RowsBefore(p), new \in RowsAfter(p) :
              /\ IsNone(cb[p].tokens.refresh_token) =>
                    new.cols.refresh_token_encrypted =
                       old.cols.refresh_token_encrypted
              /\ IsNone(cb[p].tokens.expires_in) =>
                    new.cols.expires_at = old.cols.expires_at
              /\ IsNone(cb[p].tokens.scope) =>
                    new.cols.scopes = old.cols.scopes
              /\ IsNone(cb[p].provider_client_id) =>
                    new.cols.provider_client_id = old.cols.provider_client_id
              /\ new.cols.updated_at = now
     ]_vars

\* ------------------------------------ refresh without a new refresh token
\* The refresh token the call of p read from the row it loaded and sent.
ReadToken(p) == Val(get_decrypted_tokens(Val(ctx[p].obj)).refresh_token)

\* The call of p stores the tokens the provider answered with.
Stores(p) == ctx[p].pc = "r_upsert" /\ ctx'[p].pc = "r_release"

\* The provider's answer to p had no refresh_token of its own: the key was
\* null, or absent and filled in with the token sent.
LacksRefreshToken(p) ==
    \/ IsNone(ctx[p].resp.refresh_token)
    \/ ctx[p].resp.refresh_token = Some(ReadToken(p))

\* C19 -- When the provider's answer lacks refresh_token, the refresh token
\* stored after the call has stored its tokens is the one that was stored
\* when the call read the row.
C19_RefreshTokenPreserved ==
    [][\A p \in Procs :
        Stores(p) /\ LacksRefreshToken(p) =>
           /\ ~IsNone(Val(row').refresh_token_encrypted)
           /\ decrypt(Val(Val(row').refresh_token_encrypted)) = ReadToken(p)
     ]_vars

\* ------------------------------------------------------ with_oauth_retry
\* The call of p reads its token, and makes its first request.
LoadsToken(p) == ctx[p].pc = "w_load" /\ ctx'[p].pc = "w_request"

FirstRequest(p) == ctx[p].pc = "w_request" /\ ctx'[p].pc # "w_request"

\* The response of the request just made by p.
Answer(p) ==
    IF ctx'[p].pc = "done" THEN Val(ctx'[p].returned)
    ELSE Val(ctx'[p].response)

\* refresh_integration_token has not been called by the call of p.
NoRefresh(p) ==
    /\ ctx'[p].refreshed = "" /\ ctx'[p].skip = ""
    /\ ctx'[p].calls = 0 /\ ~ctx'[p].acquired

\* C20 -- with_oauth_retry makes its first request with the access token
\* stored when it is called, expired or not, with no refresh before it; when
\* the response's status is not 401 the call returns that response, having
\* invoked request_func once, never refresh_integration_token, and having
\* left the row as it was.
C20_FirstRequestAsStored ==
    [][\A p \in Procs :
        /\ LoadsToken(p) =>
              /\ ctx'[p].token = decrypt(Val(row).access_token_encrypted)
              /\ NoRefresh(p) /\ row' = row
        /\ FirstRequest(p) =>
              /\ Answer(p).token = ctx[p].token
              /\ Answer(p).n = 1 /\ ctx'[p].requests = 1
              /\ Answer(p).status_code # 401 =>
                    /\ ctx'[p].pc = "done"
                    /\ ctx'[p].returned = Some(Answer(p))
                    /\ NoRefresh(p) /\ row' = row
     ]_vars

\* A call on an integration whose token had expired made its one request
\* with the stored token, got a 500 and returned it, with no refresh.
C20_Witness ==
    \E p \in Procs :
        /\ ctx[p].kind = "with_oauth_retry" /\ ctx[p].pc = "done"
        /\ ctx[p].returned = Some(Response(500, "access_0", 1))
        /\ ctx[p].requests = 1 /\ ctx[p].refreshed = ""
        /\ ~IsNone(row) /\ is_expired(Val(row), now)

\* The call of p goes on after refresh_integration_token returned to it.
AfterRefresh(p) == ctx[p].pc = "w_after" /\ ctx'[p].pc # "w_after"

\* C21 -- When the first response is 401 and refresh_integration_token
\* returns False, for whatever reason, with_oauth_retry returns that first
\* response as it was and does not retry: request_func was invoked once and
\* refresh_integration_token once.
C21_RefreshFailedReturns401 ==
    [][\A p \in Procs :
        (AfterRefresh(p) /\ ctx[p].refreshed = "False") =>
            /\ ctx'[p].pc = "done"
            /\ ctx'[p].returned = ctx[p].response
            /\ Val(ctx'[p].returned) = Response(401, ctx[p].token, 1)
            /\ ctx'[p].requests = 1
            /\ ctx'[p].refreshes = 1
            /\ row' = row
     ]_vars

\* One call got its 401 back because its refresh was rate-limited, another
\* because the provider refused the refresh token.
C21_Witness ==
    \E p, q \in Procs :
        /\ ctx[p].kind = "with_oauth_retry" /\ ctx[p].pc = "done"
        /\ ctx[p].skip = "rate" /\ ctx[p].refreshed = "False"
        /\ ctx[p].returned = Some(Response(401, "access_0", 1))
        /\ ctx[q].kind = "with_oauth_retry" /\ ctx[q].pc = "done"
        /\ ctx[q].calls = 1 /\ ctx[q].refreshed = "False"
        /\ ctx[q].returned = Some(Response(401, "access_0", 1))

\* The call of p reloads its token, and makes its second request.
Reloads(p) == ctx[p].pc = "w_reload" /\ ctx'[p].pc # "w_reload"

SecondRequest(p) == ctx[p].pc = "w_retry" /\ ctx'[p].pc # "w_retry"

Running(p) ==
    ctx[p].kind = "with_oauth_retry" /\ ctx[p].pc \notin {"idle", "done"}

StartFailed(p, error) ==
    /\ sctx'[p].pc = "done" /\ sctx'[p].op = "start"
    /\ sctx'[p].exit = error
    /\ IsNone(sctx'[p].res)
    /\ states' = states /\ used' = used /\ flows' = flows

\* A step that can be a call of build_authorization_url_db by p: a request
\* was issued and p, or nobody, has a new result.
Started(p) ==
    /\ issued' = issued + 1
    /\ sctx'[p].op = "start"
    /\ (sctx'[p] # sctx[p] \/ sctx' = sctx)

\* The request r has no provider configuration: its service has no builder,
\* or the builder's settings are not there.
NoConfig(r) ==
    r.service_name \notin {"google_drive", "dataverse"} \/ ~r.configured

\* The request r is for Dataverse, configured, and gives no client_id (none,
\* or an empty one).
NoClientId(r) ==
    /\ r.service_name = "dataverse" /\ r.configured
    /\ r.provider_client_id \in {None, Some("")}

\* C23 -- build_authorization_url_db raises the unknown-service error when
\* the service has no provider configuration, and the missing-client-id
\* error when the provider registers its client dynamically (Dataverse) and
\* no provider_client_id is given; in both cases no state record is stored
\* and no URL or state is returned.
C23_StartFailsWithoutConfigOrClient ==
    [][\A p \in Procs, r \in StartRequests :
        (Started(p) /\
         \E state \in StateKeys, user_id \in Users :
            StartFlow(p, state, user_id, r.service_name, r.provider_client_id,
                      r.configured)) =>
           /\ NoConfig(r) => StartFailed(p,
                  "ValueError:Unknown service or missing configuration")
           /\ NoClientId(r) => StartFailed(p,
                  "ValueError:No client_id available")
           /\ ~NoConfig(r) /\ ~NoClientId(r) => sctx'[p].exit = "ok"
     ]_vars

\* One request failed for an unknown service and another for a missing
\* client_id, and the state store is still empty.
C23_Witness ==
    \E p, q \in Procs :
        /\ sctx[p].exit = "ValueError:Unknown service or missing configuration"
        /\ sctx[q].exit = "ValueError:No client_id available"
        /\ used = {} /\ \A k \in StateKeys : IsNone(states[k])

\* What the call of p returned, and the record stored under the state it
\* returned.
Returned(p) == Val(sctx'[p].res)

StoredFor(p) == Val(states'[Returned(p).state])

\* C24 -- A successful build_authorization_url_db stores one new state
\* record, under the state it returns, with the caller's user_id, the
\* service and the redirect_uri.  The record has a code_verifier exactly
\* when the provider uses PKCE (Dataverse), and then the URL carries its
\* S256 challenge, else no code_challenge; it has a provider_client_id
\* exactly when the provider registers dynamically (Dataverse), the one
\* given; one given for a static provider is neither in the URL nor stored.
C24_StartStoresOneState ==
    [][\A p \in Procs, r \in StartRequests, user_id \in Users :
        (Started(p) /\ sctx'[p].exit = "ok" /\ ~NoConfig(r) /\ ~NoClientId(r)
         /\ \E state \in StateKeys :
               StartFlow(p, state, user_id, r.service_name,
                         r.provider_client_id, r.configured)) =>
           /\ ~IsNone(sctx'[p].res)
           /\ Returned(p).state \notin used
           /\ Returned(p).url.state = Returned(p).state
           /\ Returned(p).url.redirect_uri = RedirectUri
           /\ \A k \in StateKeys :
                 IF k = Returned(p).state
                 THEN IsNone(states[k]) /\ ~IsNone(states'[k])
                 ELSE states'[k] = states[k]
           /\ StoredFor(p).user_id = user_id
           /\ StoredFor(p).service_name = r.service_name
           /\ StoredFor(p).redirect_uri = RedirectUri
           /\ StoredFor(p).created_at = now
           /\ IF r.service_name = "dataverse"
              THEN /\ ~IsNone(StoredFor(p).code_verifier)
                   /\ Returned(p).url.code_challenge =
                         Some(code_challenge(Val(StoredFor(p).code_verifier)))
                   /\ Returned(p).url.code_challenge_method = Some("S256")
                   /\ ~IsNone(StoredFor(p).provider_client_id)
                   /\ StoredFor(p).provider_client_id = r.provider_client_id
                   /\ Returned(p).url.client_id = Val(r.provider_client_id)
              ELSE /\ IsNone(StoredFor(p).code_verifier)
                   /\ IsNone(Returned(p).url.code_challenge)
                   /\ IsNone(Returned(p).url.code_challenge_method)
                   /\ IsNone(StoredFor(p).provider_client_id)
                   /\ Some(Returned(p).url.client_id) # r.provider_client_id
     ]_vars

\* A flow was started for Dataverse with a registered client and one for
\* Google Drive: the first state has a verifier and the client_id, the second
\* has neither.
C24_Witness ==
    \E p, q \in Procs :
        /\ sctx[p].exit = "ok" /\ sctx[q].exit = "ok"
        /\ Val(sctx[p].res).url.code_challenge = Some("S256(verifier_a)")
        /\ Val(states["state_a"]).provider_client_id = Some("client_dyn")
        /\ Val(states["state_a"]).code_verifier = Some("verifier_a")
        /\ Val(sctx[q].res).url.client_id = "google_client_id"
        /\ IsNone(Val(states["state_b"]).code_verifier)
        /\ IsNone(Val(states["state_b"]).provider_client_id)
        /\ Val(states["state_b"]).user_id # Val(states["state_a"]).user_id

\* ------------------------------------------------- the token endpoint
\* A token request of p that the endpoint answered with a status other
\* than 200.
Refusal(p) ==
    /\ ctx[p].kind \in Grants /\ ctx[p].pc = "done"
    /\ Val(ctx[p].response).status_code # 200

\* C25 -- For a response of the token endpoint whose status is not 200,
\* exchange_code_for_tokens and refresh_access_token raise OAuthTokenError:
\* with the body's error and error_description when the body is JSON, and
\* a generic one for the status code when it is not (an HTML page, an empty
\* body); no JSON-parse exception leaves them.
C25_NonJsonErrorBody ==
    \A p \in Procs : Refusal(p) =>
        LET response == Val(ctx[p].response)
        IN  /\ ctx[p].res = "raise:OAuthTokenError"
            /\ response.is_json /\ "error" \in response.body.keys =>
                  /\ Val(ctx[p].exc).error = response.body.error
                  /\ Val(ctx[p].exc).description =
                        response.body.error_description

\* ------------------------------------------------- list and status routes
Range(seq) == { seq[i] : i \in DOMAIN seq }

\* The position of service s in the list.
IndexOf(seq, s) == CHOOSE i \in DOMAIN seq : seq[i] = s

\* seq keeps the relative order its services have in `of`.
KeepsOrder(seq, of) ==
    \A i, j \in DOMAIN seq :
        i < j => IndexOf(of, seq[i]) < IndexOf(of, seq[j])

\* The integration of a user for a service, if any.
RowFor(user_id, s) == RowsOf(integrations, user_id, s)

\* C26 -- get_integration_status partitions available_services: every
\* service asked about is in exactly one of connected, expired and missing
\* (no row: missing; a row whose expires_at is set and past: expired;
\* otherwise, a null expires_at included: connected); each list keeps the
\* order of available_services; a service with a row that was not asked
\* about is in none of the lists.
C26_StatusPartition ==
    \A p \in Procs : cb[p].out = "status" =>
        LET args == Val(cb[p].args)
            asked == args.available_services
            status == Val(cb[p].result)
            lists == << status.connected, status.expired, status.missing >>
        IN  /\ \A s \in Range(asked) :
                  /\ Cardinality({ k \in 1 .. 3 : s \in Range(lists[k]) }) = 1
                  /\ s \in Range(status.missing) <=>
                        RowFor(args.user_id, s) = {}
                  /\ s \in Range(status.expired) <=>
                        \E r \in RowFor(args.user_id, s) :
                           /\ ~IsNone(r.cols.expires_at)
                           /\ args.at > Val(r.cols.expires_at)
            /\ \A k \in 1 .. 3 :
                  /\ Range(lists[k]) \subseteq Range(asked)
                  /\ KeepsOrder(lists[k], asked)
            /\ Len(status.connected) + Len(status.expired)
                  + Len(status.missing) = Len(asked)

\* Asked about dataverse, other and google_drive in that order, ten minutes
\* after the expiry of two of the user's three integrations: two are
\* expired, in the order asked, and the one without expiry is connected;
\* asked about google_drive alone, the rows of the other services show
\* nowhere.
C26_Witness ==
    \E p, q \in Procs :
        /\ cb[p].out = "status" /\ Val(cb[p].args).user_id = 1
        /\ Val(cb[p].result).expired = << "dataverse", "google_drive" >>
        /\ Val(cb[p].result).connected = << "other" >>
        /\ cb[q].out = "status" /\ Val(cb[q].args).user_id = 1
        /\ Val(cb[q].args).available_services = << "google_drive" >>
        /\ Val(cb[q].result).expired = << "google_drive" >>
        /\ Val(cb[q].result).connected = << >>
        /\ Val(cb[q].result).missing = << >>

\* The token values a row can hold.
TokenValues ==
    { [access |-> encrypt("access_other"), refresh |-> None],
      [access |-> encrypt("access_0"),
       refresh |-> Some(encrypt("refresh_other"))] }

\* The tables that differ from `table` only in the token values of the
\* user's integrations.
TokenVariants(table, user_id) ==
    { { IF r.user_id = user_id
        THEN [r EXCEPT !.cols.access_token_encrypted = v[r.service_name].access,
                       !.cols.refresh_token_encrypted = v[r.service_name].refresh]
        ELSE r : r \in table } :
      v \in [Services -> TokenValues] }

\* What list_integrations can answer for a user at time t, one answer for
\* each order of the rows.
ListOutputs(table, user_id, t) ==
    { list_integrations(rows, t) :
        rows \in Orderings(get_user_integrations(table, user_id)) }

\* C27 -- list_integrations never exposes raw or encrypted tokens: its
\* answer for a user is an answer it gives on every table that differs
\* only in the access and refresh token values of that user's
\* integrations, and holds, for each of the user's rows, id, service_name,
\* expires_at, scopes, the two flags and the two timestamps.
C27_ListHidesTokens ==
    \A p \in Procs : cb[p].out = "list" =>
        LET args == Val(cb[p].args)
            listed == Val(cb[p].result)
        IN  /\ \A other \in TokenVariants(integrations, args.user_id) :
                  listed \in ListOutputs(other, args.user_id, args.at)
            /\ listed.count =
                  Cardinality(get_user_integrations(integrations, args.user_id))
            /\ \A i \in DOMAIN listed.integrations :
                  \E r \in get_user_integrations(integrations, args.user_id) :
                     listed.integrations[i] =
                        [ id |-> r.cols.id,
                          service_name |-> r.service_name,
                          expires_at |-> r.cols.expires_at,
                          scopes |-> r.cols.scopes,
                          is_connected |-> TRUE,
                          is_expired |-> /\ ~IsNone(r.cols.expires_at)
                                         /\ args.at > Val(r.cols.expires_at),
                          created_at |-> r.cols.created_at,
                          updated_at |-> r.cols.updated_at ]

\* The first user's three integrations were listed, one of them expired.
C27_Witness ==
    \E p \in Procs :
        /\ cb[p].out = "list" /\ Val(cb[p].args).user_id = 1
        /\ Val(cb[p].result).count = 3
        /\ \E i, j \in 1 .. 3 :
              /\ Val(cb[p].result).integrations[i].is_expired
              /\ ~Val(cb[p].result).integrations[j].is_expired

\* ------------------------------------------------------------ round trip
\* Plaintext tokens: empty, short, longer than one cipher block.
Plaintexts ==
    { "", "access_1", "refresh_1", "ya29.a0AfH6SMBx-a-longer-bearer-token" }

\* What get_decrypted_tokens returns for the row the call of p has written.
WrittenTokens(p) ==
    { get_decrypted_tokens(r.cols) : r \in RowsAfter(p) }

NoRefreshToken(p) ==
    /\ ctx[p].acquired
    /\ ~IsNone(ctx[p].obj)
    /\ IsNone(Val(ctx[p].obj).refresh_token_encrypted)

\* C29 -- When the integration stores no refresh token,
\* refresh_integration_token returns False without calling the provider,
\* and refresh_locked_at, which the call has just set, is null when it
\* returns.
C29_NoRefreshTokenReleases ==
    [][ \A p \in Procs :
            (NoRefreshToken(p) /\ RefreshReturns(p)) =>
                /\ ctx'[p].refreshed = "False"
                /\ ctx'[p].calls = 0
                /\ IsNone(Val(row').refresh_locked_at) ]_vars

\* The columns of the integration that hold the tokens and what came with
\* them.
TokenColumns(integration) ==
    [ access_token_encrypted |-> integration.access_token_encrypted,
      refresh_token_encrypted |-> integration.refresh_token_encrypted,
      expires_at |-> integration.expires_at,
      scopes |-> integration.scopes,
      provider_client_id |-> integration.provider_client_id ]

\* The call of p fails: decryption or the provider raises.
Fails(p) ==
    ctx[p].pc \in {"r_decrypt", "r_provider"} /\ ctx'[p].pc = "r_except"

\* The call of p leaves its exception handler.
Handles(p) == ctx[p].pc = "r_except" /\ RefreshReturns(p)

StoresNew(p) == ctx[p].pc = "r_upsert" /\ ctx'[p].pc = "r_release"

\* The call of p releases after its upsert.
ReleasesAfter(p) == ctx[p].pc = "r_release" /\ RefreshReturns(p)

\* No other call has written the row since the Session of p loaded it.
Current(p) == ctx[p].obj = row

ExpiredStates(table, t) ==
    { k \in StateKeys : /\ ~IsNone(table[k])
                        /\ state_is_expired(Val(table[k]), t) }

\* The sweep of p runs its SELECT; it commits its deletes and returns.
Selects(p) == sctx[p].pc # "s_commit" /\ sctx'[p].pc = "s_commit"

Sweeps(p) == sctx[p].pc = "s_commit" /\ sctx'[p].pc = "done"

\* C32 -- cleanup_expired_states_db finds exactly the states for which
\* is_expired() is true, deletes them and returns their number; a state
\* that is not expired, which consume would still accept, is left in place
\* with its record.
C32_SweepDeletesExpired ==
    [][ \A p \in Procs :
            /\ Selects(p) =>
                  /\ sctx'[p].swept = ExpiredStates(states, now)
                  /\ sctx'[p].count = Cardinality(ExpiredStates(states, now))
                  /\ states' = states
            /\ Sweeps(p) =>
                  /\ sctx'[p].count = Cardinality(sctx[p].swept)
                  /\ \A k \in sctx[p].swept : IsNone(states'[k])
                  /\ \A k \in StateKeys \ sctx[p].swept : states'[k] = states[k]
                  /\ \A k \in StateKeys \ ExpiredStates(states, now) :
                        states'[k] = states[k] ]_vars

\* A sweep has deleted the one expired state and left the state of a later
\* flow, which is in the table.
C32_Witness ==
    \E p \in Procs, k, l \in StateKeys :
        /\ sctx[p].pc = "done" /\ sctx[p].op = "cleanup"
        /\ sctx[p].swept = {k} /\ sctx[p].count = 1
        /\ k \in used /\ IsNone(states[k])
        /\ ~IsNone(states[l]) /\ Val(states[l]).created_at > 0

\* ------------------------------------------------------- skipped calls
\* The call of p returns before it has tried to acquire the lock.
Skips(p) == ctx[p].skip = "" /\ ctx'[p].skip # ""

\* The call of p takes a step before the acquisition.
StepsBefore(p) == ctx[p].pc \in {"r_load", "r_check"} /\ ctx'[p] # ctx[p]

\* C33 -- A refresh_integration_token call that is skipped, because no
\* integration exists, because it is rate-limited or because a lock that
\* is not stale is held, leaves the store unchanged: none of its steps
\* writes the row, so last_refresh_attempt and refresh_locked_at are not
\* touched; it returns False without acquiring and without a provider
\* call.  The checks skip exactly in those cases.
C33_SkippedWritesNothing ==
    [][ \A p \in Procs :
            /\ StepsBefore(p) => row' = row
            /\ Skips(p) =>
                  /\ StepsBefore(p)
                  /\ ctx'[p].refreshed = "False"
                  /\ ~ctx'[p].acquired
                  /\ ctx'[p].calls = 0
                  /\ row' = row
            /\ (ctx[p].pc = "r_load" /\ ctx'[p] # ctx[p]) =>
                  (ctx'[p].skip = "missing" <=> IsNone(row))
            /\ Checks(p) =>
                  LET last == Val(ctx[p].obj).last_refresh_attempt
                      locked == Val(ctx[p].obj).refresh_locked_at
                      recent == ~IsNone(last) /\ now - Val(last) < 60
                      held == ~IsNone(locked) /\ now - Val(locked) < 30
                  IN  /\ ctx'[p].skip = "rate" <=> recent
                      /\ ctx'[p].skip = "lock" <=> (~recent /\ held)
                      /\ ctx'[p].skip = "" <=> (~recent /\ ~held)
            /\ WritesLock(p) => ctx[p].skip = "" ]_vars

\* A call was skipped for the rate limit while another held the lock, then
\* the user disconnected, and a call was skipped because the integration
\* does not exist.
C33_Witness ==
    \E p, q \in Procs :
        /\ ctx[p].skip = "rate" /\ ctx[p].refreshed = "False"
        /\ ctx[q].skip = "missing" /\ ctx[q].refreshed = "False"
        /\ IsNone(row)

\* --------------------------------------------- disconnect while refreshing
\* The call of p takes a step while the integration does not exist.
StepsWithoutRow(p) == IsNone(row) /\ ctx'[p] # ctx[p]

\* C35 -- A refresh in flight does not resurrect a disconnected integration:
\* once delete_integration has removed the row, no step of a
\* refresh_integration_token call that was awaiting the provider creates a
\* row for the user and the service, and the call returns True or False, it
\* does not raise.
C35_NoResurrection ==
    [][ \A p \in Procs :
            /\ (StepsWithoutRow(p) /\ ctx[p].acquired) => IsNone(row')
            /\ (RefreshReturns(p) /\ ctx[p].acquired) =>
                  ctx'[p].refreshed \in {"True", "False"} ]_vars

\* ------------------------------------------------- lock and rate limit
\* refresh_locked_at, when set, comes with a last_refresh_attempt that is
\* not earlier.
AttemptCoversLock(integration) ==
    ~IsNone(integration.refresh_locked_at) =>
        /\ ~IsNone(integration.last_refresh_attempt)
        /\ Val(integration.last_refresh_attempt) >=
               Val(integration.refresh_locked_at)

\* C34 -- In every reachable state, refresh_locked_at non-null implies
\* last_refresh_attempt non-null and not earlier than refresh_locked_at, in
\* the row and in every object loaded from it; hence a call that would see
\* a lock less than 30 s old has an attempt less than 60 s old before it
\* and is rejected by the rate limit, which is checked first.
C34_AttemptCoversLock ==
    [][ /\ ~IsNone(row) => AttemptCoversLock(Val(row))
        /\ ~IsNone(row') => AttemptCoversLock(Val(row'))
        /\ \A p \in Procs :
              /\ ~IsNone(ctx'[p].obj) => AttemptCoversLock(Val(ctx'[p].obj))
              /\ Checks(p) =>
                    LET last == Val(ctx[p].obj).last_refresh_attempt
                        locked == Val(ctx[p].obj).refresh_locked_at
                        held == ~IsNone(locked) /\ now - Val(locked) < 30
                    IN  held => /\ ~IsNone(last) /\ now - Val(last) < 60
                                /\ ctx'[p].skip = "rate" ]_vars

\* A call checks an integration whose lock, held by another call that
\* awaits the provider, is not stale, and is rejected by the rate limit.
C34_Witness ==
    \E p, q \in Procs :
        /\ ctx[p].skip = "rate" /\ ctx[p].refreshed = "False"
        /\ ctx[q].pc = "r_provider"
        /\ ~IsNone(Val(row).refresh_locked_at)
        /\ now - Val(Val(row).refresh_locked_at) < 30
        /\ Val(row).last_refresh_attempt = Val(row).refresh_locked_at

\* ------------------------------------------------------ whose lock it is
\* The call of q is in flight and the lock in the row is the one it wrote,
\* 30 s or more after the call of p wrote its own.
Overrode(q, p) ==
    /\ ctx[q].pc \in {"r_decrypt", "r_provider", "r_upsert"}
    /\ Val(row).refresh_locked_at = Val(ctx[q].obj).refresh_locked_at
    /\ LockTime(q) - LockTime(p) >= REFRESH_LOCK_TIMEOUT_SECONDS

\* C36 -- A refresh call clears only the lock it acquired itself: when its
\* lock went stale and a later call, still in flight, has overridden it
\* with a refresh_locked_at of its own, the first holder's return does not
\* reset refresh_locked_at.
C36_ClearsOwnLockOnly ==
    [][ \A p \in Procs : \A q \in Procs \ {p} :
            (Handles(p) /\ Overrode(q, p)) =>
                Val(row').refresh_locked_at = Val(row).refresh_locked_at ]_vars

\* ------------------------------------------- the state after a callback
\* The callback of p has its answer from consume and goes on to validate.
Validates(p) == cb[p].pc = "cb_consume" /\ cb'[p].pc # "cb_consume"

\* The callback of p leaves the token exchange.
Exchanged(p) == cb[p].pc = "cb_exchange" /\ cb'[p].pc # "cb_exchange"

\* C37 -- A callback that finds an unexpired state deletes it before any
\* further validation: the state is not in the table when the service of
\* the path is compared, nor when the token exchange answers or fails, and
\* nothing stores it again; a state that a consume has returned is never
\* in the table, and a callback whose consume began after that is answered
\* that the state is invalid or expired, whatever became of the first
\* callback.
C37_StateGoneAfterConsume ==
    [][ /\ \A p \in Procs :
              /\ (Validates(p) /\ ~IsNone(sctx[p].res)) =>
                    /\ IsNone(states[Val(cb[p].state)])
                    /\ IsNone(states'[Val(cb[p].state)])
                    /\ delivered[Val(cb[p].state)] > 0
              /\ (Validates(p) /\ sctx[p].after) =>
                    cb'[p].out = "error:Invalid or expired state parameter"
              /\ Exchanged(p) =>
                    /\ IsNone(states[Val(cb[p].state)])
                    /\ IsNone(states'[Val(cb[p].state)])
        /\ \A k \in StateKeys :
              delivered[k] > 0 => IsNone(states[k]) /\ IsNone(states'[k])
      ]_vars

\* The callback that consumed a state was rejected for a service mismatch,
\* nothing was stored, and a second callback with the same state, begun
\* after that, has found no state.
C37_Witness ==
    \E p, q \in Procs, k \in StateKeys :
        /\ cb[p].out = "error:Service mismatch in callback"
        /\ delivered[k] = 1 /\ \A l \in StateKeys \ {k} : delivered[l] = 0
        /\ cb[q].pc = "cb_consume" /\ cb[q].state = Some(k)
        /\ sctx[q].pc = "done" /\ sctx[q].after /\ sctx[q].exit = "missing"
        /\ integrations = {}

\* ------------------------------------------------- the two state stores
\* The states a store holds.
Retained(table) == { k \in StateKeys : ~IsNone(table[k]) }

\* C38 -- The in-process state store and the database state store are
\* equivalent: after every sequence of store, get and consume calls made on
\* both, a consume for another user and a consume of an expired state
\* included, the last get or consume has returned the same on both and
\* both hold the same set of states.
C38_StoresEquivalent ==
    InStep =>
        /\ mem.op \in {"get", "consume"} => mem.res = sctx[Driver].res
        /\ Retained(_oauth_states) = Retained(states)

\* ----------------------------------------------------- the periodic task
\* The coroutine has returned or raised.
Ended == task.pc \in {"stopped", "cancelled"}

\* C39 -- run_cleanup_task keeps sweeping until stopped: it leaves its loop
\* only when it sees the event set or is cancelled; once stop_event is set
\* the task eventually ends, and after it has seen the event set it starts
\* no cleanup pass; a cleanup pass that raises does not end the task, which
\* sleeps one interval and goes back to the top of the loop; a cancellation
\* is raised out of the task and ends it.
C39_SweepsUntilStopped ==
    /\ [][ /\ task.seen => task' = task
           /\ (task'.pc = "stopped" /\ task.pc # "stopped") =>
                  /\ task.stop_event = Some(TRUE)
                  /\ task'.seen
           /\ (task'.pc = "cancelled" /\ task.pc # "cancelled") => task.cancel
           /\ (task.pc = "cleanup" /\ task'.errors > task.errors) =>
                  task'.pc = "recover"
           /\ (task.pc = "recover" /\ task'.pc # "recover") =>
                  task'.pc = IF task.cancel THEN "cancelled" ELSE "check"
           /\ (task.pc = "wait" /\ task.cancel /\ task'.pc # "wait") => Ended'
           /\ task'.passes > task.passes => ~task.seen /\ task.pc = "cleanup"
         ]_vars
    /\ (task.stop_event = Some(TRUE)) ~> Ended
    /\ (task.pc = "recover") ~> (task.pc \in {"check", "cancelled"})
    /\ task.cancel ~> Ended

\* A cleanup pass raised, a later pass swept an expired state, and the task
\* has stopped on the event.
C39_Witness ==
    /\ task.pc = "stopped" /\ task.seen
    /\ task.errors >= 1 /\ task.passes >= 2
    /\ \E k \in used : IsNone(states[k])

====
